---- MODULE Spec2Model ----
(***************************************************************************)
(* Model of axum-content-negotiation (src/src/lib.rs): the Accept header   *)
(* negotiation, the Negotiate<T> extractor / response and the              *)
(* NegotiateService wrapping an inner service.                             *)
(*                                                                         *)
(* Text (header values, bodies) is a sequence of one-byte tokens: a        *)
(* printable ASCII byte is the one-character string of it, any other byte  *)
(* (the backquote included) is the string of its hex code ("0xE9").        *)
(* Option<T> is a sequence of length at most one: <<>> is None, <<x>> is   *)
(* Some(x).                                                                *)
(***************************************************************************)
EXTENDS Integers, Sequences, FiniteSets, TLC

VARIABLES
    build,      \* the cargo features of the build
    req,        \* req[e]: the request of exchange e
    route,      \* route[e]: how the handler of exchange e is mounted
    pc,         \* pc[e]: where exchange e stands
    encoding,   \* encoding[e]: Option, the media type call() negotiated
    output,     \* output[e]: Option, what the handler's body returned
    inner,      \* inner[e]: Option, the response the inner service resolved to
    resp,       \* resp[e]: Option, the response the caller receives
    invoked,    \* invoked[e]: calls of the inner service
    handled,    \* handled[e]: runs of the handler's body
    decoded,    \* decoded[e]: Option, the value the extractor handed to the handler
    bodyReads,  \* bodyReads[e]: times the request body was read
    decodes,    \* decodes[e]: calls of a codec's from_slice
    encodes     \* encodes[e]: calls of erased_serialize

vars == <<build, req, route, pc, encoding, output, inner, resp, invoked, handled,
          decoded, bodyReads, decodes, encodes>>

None == <<>>

Some(x) == <<x>>

\* ------------------------------------------------------------------ text

APPLICATION_JSON == <<"a","p","p","l","i","c","a","t","i","o","n","/","j","s","o","n">>

APPLICATION_CBOR == <<"a","p","p","l","i","c","a","t","i","o","n","/","c","b","o","r">>

STAR_STAR == <<"*","/","*">>

\* the token of every byte, at position byte + 1
ByteTokens ==
    <<
       "0x00", "0x01", "0x02", "0x03", "0x04", "0x05", "0x06", "0x07",
       "0x08", "\t", "0x0A", "0x0B", "0x0C", "0x0D", "0x0E", "0x0F",
       "0x10", "0x11", "0x12", "0x13", "0x14", "0x15", "0x16", "0x17",
       "0x18", "0x19", "0x1A", "0x1B", "0x1C", "0x1D", "0x1E", "0x1F",
       " ", "!", "\"", "#", "$", "%", "&", "'",
       "(", ")", "*", "+", ",", "-", ".", "/",
       "0", "1", "2", "3", "4", "5", "6", "7",
       "8", "9", ":", ";", "<", "=", ">", "?",
       "@", "A", "B", "C", "D", "E", "F", "G",
       "H", "I", "J", "K", "L", "M", "N", "O",
       "P", "Q", "R", "S", "T", "U", "V", "W",
       "X", "Y", "Z", "[", "\\", "]", "^", "_",
       "0x60", "a", "b", "c", "d", "e", "f", "g",
       "h", "i", "j", "k", "l", "m", "n", "o",
       "p", "q", "r", "s", "t", "u", "v", "w",
       "x", "y", "z", "{", "|", "}", "~", "0x7F",
       "0x80", "0x81", "0x82", "0x83", "0x84", "0x85", "0x86", "0x87",
       "0x88", "0x89", "0x8A", "0x8B", "0x8C", "0x8D", "0x8E", "0x8F",
       "0x90", "0x91", "0x92", "0x93", "0x94", "0x95", "0x96", "0x97",
       "0x98", "0x99", "0x9A", "0x9B", "0x9C", "0x9D", "0x9E", "0x9F",
       "0xA0", "0xA1", "0xA2", "0xA3", "0xA4", "0xA5", "0xA6", "0xA7",
       "0xA8", "0xA9", "0xAA", "0xAB", "0xAC", "0xAD", "0xAE", "0xAF",
       "0xB0", "0xB1", "0xB2", "0xB3", "0xB4", "0xB5", "0xB6", "0xB7",
       "0xB8", "0xB9", "0xBA", "0xBB", "0xBC", "0xBD", "0xBE", "0xBF",
       "0xC0", "0xC1", "0xC2", "0xC3", "0xC4", "0xC5", "0xC6", "0xC7",
       "0xC8", "0xC9", "0xCA", "0xCB", "0xCC", "0xCD", "0xCE", "0xCF",
       "0xD0", "0xD1", "0xD2", "0xD3", "0xD4", "0xD5", "0xD6", "0xD7",
       "0xD8", "0xD9", "0xDA", "0xDB", "0xDC", "0xDD", "0xDE", "0xDF",
       "0xE0", "0xE1", "0xE2", "0xE3", "0xE4", "0xE5", "0xE6", "0xE7",
       "0xE8", "0xE9", "0xEA", "0xEB", "0xEC", "0xED", "0xEE", "0xEF",
       "0xF0", "0xF1", "0xF2", "0xF3", "0xF4", "0xF5", "0xF6", "0xF7",
       "0xF8", "0xF9", "0xFA", "0xFB", "0xFC", "0xFD", "0xFE", "0xFF"
    >>

ByteToken(n) == ByteTokens[n + 1]

\* the byte a token stands for
ByteOf(c) == CHOOSE n \in 0..255 : ByteTokens[n + 1] = c

\* Bytes 0x80..0xFF, which a HeaderValue may hold and HeaderValue::to_str rejects.
ObsTextBytes == {ByteToken(n) : n \in 128..255}

\* the bytes HeaderValue::to_str takes: 0x20..0x7E and the tab
VisibleAscii == {ByteToken(n) : n \in 32..126} \cup {"\t"}

\* HeaderValue::to_str: Ok only when every byte is visible ASCII (or tab).
to_str(v) == IF \A i \in 1..Len(v) : v[i] \in VisibleAscii THEN Some(v) ELSE None

WhiteSpace == {" ", "\t"}

Digits == {"0","1","2","3","4","5","6","7","8","9"}

DigitVal(c) == CASE c = "0" -> 0 [] c = "1" -> 1 [] c = "2" -> 2 [] c = "3" -> 3
                 [] c = "4" -> 4 [] c = "5" -> 5 [] c = "6" -> 6 [] c = "7" -> 7
                 [] c = "8" -> 8 [] c = "9" -> 9

\* s without its first n bytes
Drop(s, n) == SubSeq(s, n + 1, Len(s))

RECURSIVE TrimStart(_)
TrimStart(s) == IF s # <<>> /\ Head(s) \in WhiteSpace THEN TrimStart(Tail(s)) ELSE s

RECURSIVE TrimEnd(_)
TrimEnd(s) == IF s # <<>> /\ s[Len(s)] \in WhiteSpace
              THEN TrimEnd(SubSeq(s, 1, Len(s) - 1)) ELSE s

\* str::trim
Trim(s) == TrimEnd(TrimStart(s))

\* position of the first c in s, 0 when there is none
RECURSIVE FindFrom(_, _, _)
FindFrom(s, c, i) == IF i > Len(s) THEN 0
                     ELSE IF s[i] = c THEN i ELSE FindFrom(s, c, i + 1)

\* str::split(c): the segments between the separators, at least one
RECURSIVE Split(_, _)
Split(s, c) == LET i == FindFrom(s, c, 1)
               IN IF i = 0 THEN <<s>>
                  ELSE <<SubSeq(s, 1, i - 1)>> \o Split(Drop(s, i), c)

\* str::split_once(c).unwrap_or((s, ""))
SplitOnce(s, c) == LET i == FindFrom(s, c, 1)
                   IN IF i = 0 THEN <<s, <<>>>>
                      ELSE <<SubSeq(s, 1, i - 1), Drop(s, i)>>

\* str::strip_prefix
StripPrefix(s, p) == IF Len(s) >= Len(p) /\ SubSeq(s, 1, Len(p)) = p
                     THEN Some(Drop(s, Len(p))) ELSE None

\* ------------------------------------------------------------------ f32

\* An f32 is [k, m, e]: the number m * 2^e (k = "num"), an infinity of sign m
\* (k = "inf") or a NaN (k = "nan").  A number is kept as binary32 keeps it: |m| is
\* the 24-bit significand, 2^23 <= |m| < 2^24 with -149 <= e <= 104, or a
\* subnormal or zero, |m| < 2^23 with e = -149.  -0.0 is kept as 0.0, to which it
\* compares Equal.
Num(m, e) == [k |-> "num", m |-> m, e |-> e]

Inf(sign) == [k |-> "inf", m |-> sign, e |-> 0]

F32_ZERO == Num(0, 0 - 149)

F32_ONE == Num(8388608, 0 - 23)

\* Natural numbers of any size, for the exact value of a decimal literal: the
\* sequence of the digits in base 10000, the least significant first, no zero on
\* top.
RECURSIVE BigStrip(_)
BigStrip(a) == IF a # <<>> /\ a[Len(a)] = 0 THEN BigStrip(SubSeq(a, 1, Len(a) - 1)) ELSE a

BigDigit(a, i) == IF i <= Len(a) THEN a[i] ELSE 0

\* the carry into digit i of a * k
RECURSIVE BigCarry(_, _, _)
BigCarry(a, k, i) ==
    IF i = 1 THEN 0 ELSE (BigDigit(a, i - 1) * k + BigCarry(a, k, i - 1)) \div 10000

\* a * k, for 0 < k <= 131072
BigMul(a, k) ==
    BigStrip([i \in 1..(Len(a) + 2) |-> (BigDigit(a, i) * k + BigCarry(a, k, i)) % 10000])

\* the order of two numbers of the same length, from digit i down
RECURSIVE BigCmpFrom(_, _, _)
BigCmpFrom(a, b, i) ==
    IF i = 0 THEN "Equal"
    ELSE IF a[i] < b[i] THEN "Less"
    ELSE IF a[i] > b[i] THEN "Greater"
    ELSE BigCmpFrom(a, b, i - 1)

BigCmp(a, b) ==
    IF Len(a) < Len(b) THEN "Less"
    ELSE IF Len(a) > Len(b) THEN "Greater"
    ELSE BigCmpFrom(a, b, Len(a))

\* the borrow into digit i of a - b
RECURSIVE BigBorrow(_, _, _)
BigBorrow(a, b, i) ==
    IF i = 1 THEN 0
    ELSE IF a[i - 1] - BigDigit(b, i - 1) - BigBorrow(a, b, i - 1) < 0 THEN 1 ELSE 0

\* a - b, for a >= b
BigSub(a, b) ==
    BigStrip([i \in 1..Len(a) |->
                (a[i] - BigDigit(b, i) - BigBorrow(a, b, i) + 10000) % 10000])

\* the p-th decimal digit from the right of ds followed by z zeros
DecDigit(ds, z, p) ==
    IF p <= z \/ p - z > Len(ds) THEN 0 ELSE ds[Len(ds) + 1 - (p - z)]

\* ds * 10^z, ds a sequence of decimal digits, the most significant first
BigFromDecimal(ds, z) ==
    BigStrip([j \in 1..((Len(ds) + z + 3) \div 4) |->
                DecDigit(ds, z, 4 * j - 3) + 10 * DecDigit(ds, z, 4 * j - 2)
                  + 100 * DecDigit(ds, z, 4 * j - 1) + 1000 * DecDigit(ds, z, 4 * j)])

\* The nearest binary32 to num / den, ties to even.  d is den * 2^23; Normalize
\* brings num / d into [1, 2) (below 1 for a subnormal, where e stays -149), in
\* steps of 2^16 and of 2, e being the exponent of the significand's last bit.
RECURSIVE Normalize(_, _, _)
Normalize(num, d, e) ==
    IF BigCmp(num, BigMul(d, 131072)) # "Less" THEN Normalize(num, BigMul(d, 65536), e + 16)
    ELSE IF e - 16 >= 0 - 149 /\ BigCmp(BigMul(num, 65536), BigMul(d, 2)) = "Less"
         THEN Normalize(BigMul(num, 65536), d, e - 16)
    ELSE IF BigCmp(num, BigMul(d, 2)) # "Less" THEN Normalize(num, BigMul(d, 2), e + 1)
    ELSE IF e > 0 - 149 /\ BigCmp(num, d) = "Less" THEN Normalize(BigMul(num, 2), d, e - 1)
    ELSE [num |-> num, d |-> d, e |-> e]

\* the 24 bits of rem / d: the significand and what is left behind it
RECURSIVE Significand(_, _, _, _)
Significand(rem, d, i, m) ==
    IF i = 24 THEN [m |-> m, rem |-> rem]
    ELSE IF BigCmp(rem, d) # "Less"
         THEN Significand(BigMul(BigSub(rem, d), 2), d, i + 1, 2 * m + 1)
         ELSE Significand(BigMul(rem, 2), d, i + 1, 2 * m)

\* the significand m at exponent e as an f32 of sign sgn: 2^24 carries into the
\* exponent, an exponent above 104 is an infinity
Finite(m, e, sgn) ==
    IF m = 16777216 THEN (IF e + 1 > 104 THEN Inf(sgn) ELSE Num(sgn * 8388608, e + 1))
    ELSE IF e > 104 THEN Inf(sgn)
    ELSE Num(sgn * m, e)

\* the significand goes up by one when what is left behind it is more than half a
\* unit of the last bit, or half and the significand is odd
RoundedFrom(sg, n, sgn) ==
    Finite(sg.m + (IF \/ BigCmp(sg.rem, n.d) = "Greater"
                      \/ BigCmp(sg.rem, n.d) = "Equal" /\ sg.m % 2 = 1
                   THEN 1 ELSE 0),
           n.e, sgn)

Rounded(n, sgn) == RoundedFrom(Significand(n.num, n.d, 0, 0), n, sgn)

\* the number a sequence of decimal digits writes, the most significant first
RECURSIVE DigitsValue(_, _, _)
DigitsValue(ds, i, v) == IF i > Len(ds) THEN v ELSE DigitsValue(ds, i + 1, 10 * v + ds[i])

\* num doubled until num / den is 2^23 or more, e counting the doublings
RECURSIVE ScaleUp(_, _, _)
ScaleUp(num, den, e) ==
    IF num \div den < 8388608 THEN ScaleUp(2 * num, den, e - 1) ELSE [num |-> num, e |-> e]

\* the quotient n.num / den rounded to an integer, ties to even, at exponent n.e:
\* the nearest f32 to a ratio of machine integers
RoundedQuotient(n, den, sgn) ==
    Finite((n.num \div den)
             + (IF \/ 2 * (n.num % den) > den
                   \/ 2 * (n.num % den) = den /\ (n.num \div den) % 2 = 1
                THEN 1 ELSE 0),
           n.e, sgn)

\* the f32 of ds * 10^e10, ds the digits of a decimal literal without the leading
\* zeros, the most significant first: 10^39 and more is an infinity, less than
\* 10^-46 is zero, anything between is rounded from the exact quotient (in machine
\* integers when the digits and the power of ten are few enough for them)
F32FromDecimal(ds, e10, sgn) ==
    IF ds = <<>> THEN F32_ZERO
    ELSE IF Len(ds) + e10 > 39 THEN Inf(sgn)
    ELSE IF Len(ds) + e10 < 0 - 45 THEN F32_ZERO
    ELSE IF Len(ds) <= 7 /\ e10 <= 0 /\ e10 >= 0 - 2
    THEN RoundedQuotient(ScaleUp(DigitsValue(ds, 1, 0), <<1, 10, 100>>[1 - e10], 0),
                         <<1, 10, 100>>[1 - e10], sgn)
    ELSE Rounded(Normalize(
                     BigFromDecimal(ds, IF e10 > 0 THEN e10 ELSE 0),
                     BigMul(BigMul(BigFromDecimal(<<1>>, IF e10 < 0 THEN 0 - e10 ELSE 0),
                                   2048), 4096),
                     0),
                 sgn)

\* The scan of a decimal literal: st is where the scan stands ("int", "frac",
\* "exp0" after the e, "exp1" after the exponent's sign, "exp" in its digits, "bad"),
\* ds the digits read, leading zeros left out, nd the number of digits read, f the
\* number of them behind the point, x the exponent's digits (no further digit is
\* taken in once it has reached 65536), xn whether the exponent is negative.
ScanDigit(ds, c) == IF ds = <<>> /\ c = "0" THEN <<>> ELSE Append(ds, DigitVal(c))

ScanStep(a, c) ==
    CASE a.st = "int" /\ c \in Digits ->
             [a EXCEPT !.ds = ScanDigit(@, c), !.nd = @ + 1]
      [] a.st = "frac" /\ c \in Digits ->
             [a EXCEPT !.ds = ScanDigit(@, c), !.nd = @ + 1, !.f = @ + 1]
      [] a.st = "int" /\ c = "." -> [a EXCEPT !.st = "frac"]
      [] a.st \in {"int", "frac"} /\ c \in {"e", "E"} -> [a EXCEPT !.st = "exp0"]
      [] a.st = "exp0" /\ c \in {"+", "-"} -> [a EXCEPT !.st = "exp1", !.xn = (c = "-")]
      [] a.st \in {"exp0", "exp1", "exp"} /\ c \in Digits ->
             [a EXCEPT !.st = "exp",
                       !.x = IF @ < 65536 THEN 10 * @ + DigitVal(c) ELSE @]
      [] OTHER -> [a EXCEPT !.st = "bad"]

RECURSIVE Scan(_, _, _)
Scan(s, i, a) == IF i > Len(s) \/ a.st = "bad" THEN a ELSE Scan(s, i + 1, ScanStep(a, s[i]))

\* the f32 of a scan that ended on a literal of the grammar
\* (Digit+ | Digit+ '.' Digit* | Digit* '.' Digit+) (('e' | 'E') sign? Digit+)?,
\* None for any other
ScannedNumber(a, neg) ==
    IF a.st \in {"int", "frac", "exp"} /\ a.nd > 0
    THEN Some(F32FromDecimal(a.ds, (IF a.xn THEN 0 - a.x ELSE a.x) - a.f,
                             IF neg THEN 0 - 1 ELSE 1))
    ELSE None

\* the decimal literals of f32::from_str, sign already taken
ParseNumber(s, neg) ==
    ScannedNumber(Scan(s, 1, [st |-> "int", ds |-> <<>>, nd |-> 0, f |-> 0, x |-> 0,
                              xn |-> FALSE]),
                  neg)

\* "inf", "infinity" and "nan", in any letter case
ParseInfNan(s, neg) ==
    LET l == [i \in 1..Len(s) |->
                 CASE s[i] = "I" -> "i" [] s[i] = "N" -> "n" [] s[i] = "F" -> "f"
                   [] s[i] = "T" -> "t" [] s[i] = "Y" -> "y" [] s[i] = "A" -> "a"
                   [] OTHER -> s[i]]
    IN IF l = <<"n","a","n">> THEN Some([k |-> "nan", m |-> 0, e |-> 0])
       ELSE IF l = <<"i","n","f">> \/ l = <<"i","n","f","i","n","i","t","y">>
            THEN Some(Inf(IF neg THEN 0 - 1 ELSE 1))
       ELSE None

\* a number, or else one of the special values
NumberOrInfNan(r, body, neg) == IF r # None THEN r ELSE ParseInfNan(body, neg)

\* the literal behind the sign
ParseUnsigned(body, neg) ==
    IF body = <<>> THEN None ELSE NumberOrInfNan(ParseNumber(body, neg), body, neg)

\* str::parse::<f32>(): Some(value), or None for the parse error
ParseF32(s) ==
    IF s # <<>> /\ Head(s) \in {"+", "-"} THEN ParseUnsigned(Tail(s), Head(s) = "-")
    ELSE ParseUnsigned(s, FALSE)

CmpInt(a, b) == IF a < b THEN "Less" ELSE IF a > b THEN "Greater" ELSE "Equal"

\* f32::partial_cmp: Some(ordering), or None when either side is a NaN; two
\* numbers are ordered by sign, then by exponent and significand (the significand
\* of a larger exponent is the larger number, as in binary32)
PartialCmp(a, b) ==
    IF a.k = "nan" \/ b.k = "nan" THEN None
    ELSE IF a.k = "inf" /\ b.k = "inf" THEN Some(CmpInt(a.m, b.m))
    ELSE IF a.k = "inf" THEN Some(IF a.m > 0 THEN "Greater" ELSE "Less")
    ELSE IF b.k = "inf" THEN Some(IF b.m > 0 THEN "Less" ELSE "Greater")
    ELSE IF (a.m > 0) # (b.m > 0) \/ (a.m < 0) # (b.m < 0) \/ a.e = b.e
         THEN Some(CmpInt(a.m, b.m))
    ELSE IF a.m > 0 THEN Some(CmpInt(a.e, b.e))
    ELSE Some(CmpInt(b.e, a.e))

\* ------------------------------------------------------------------ build

\* A build is the set of cargo features compiled in: the codecs, and the default
\* media type (DEFAULT_CONTENT_TYPE_VALUE, exactly one default-* feature).  The
\* features are independent: a build may leave out the codec of its default, or
\* every codec.
Builds == [json : BOOLEAN, cbor : BOOLEAN, default : {APPLICATION_JSON, APPLICATION_CBOR}]

DEFAULT_CONTENT_TYPE_VALUE(b) == b.default

\* the media types with a codec compiled in
Supported(b) == (IF b.json THEN {APPLICATION_JSON} ELSE {})
                \cup (IF b.cbor THEN {APPLICATION_CBOR} ELSE {})

\* ------------------------------------------------------------------ negotiate

\* HeaderMap::get: the first value of the header, if any
Get(values) == IF values = <<>> THEN None ELSE Some(values[1])

\* `match mime.as_bytes()`: the media type a token resolves to
MimeType(b, mime) ==
    IF b.json /\ mime = APPLICATION_JSON THEN Some(APPLICATION_JSON)
    ELSE IF b.cbor /\ mime = APPLICATION_CBOR THEN Some(APPLICATION_CBOR)
    ELSE IF mime = STAR_STAR THEN Some(DEFAULT_CONTENT_TYPE_VALUE(b))
    ELSE None

\* Variant: a q value that does not parse is skipped (and_then(|s| s.parse().ok())).
QParam_skips_malformed(p) == LET v == StripPrefix(p, <<"q", "=">>)
                             IN IF v = None THEN None ELSE ParseF32(v[1])

\* s.strip_prefix("q=").map(|s| s.parse::<f32>().unwrap_or(0.0))
QParam(p) == LET v == StripPrefix(p, <<"q", "=">>)
             IN IF v = None THEN None
                ELSE LET f == ParseF32(v[1])
                     IN IF f = None THEN Some(F32_ZERO) ELSE f

\* find_map over the trimmed parameters
RECURSIVE FindMapQ(_)
FindMapQ(params) == IF params = <<>> THEN None
                    ELSE LET r == QParam(Trim(Head(params)))
                         IN IF r # None THEN r ELSE FindMapQ(Tail(params))

\* the q value of a parameter tail, 1.0 when it names none
Quality(q_str) == LET r == FindMapQ(Split(q_str, ";"))
                  IN IF r = None THEN F32_ONE ELSE r[1]

\* the closure of filter_map, on one trimmed segment: Some((mime_type, q)) or None
ParseCandidate(b, seg) ==
    LET sp == SplitOnce(seg, ";")
        mt == MimeType(b, sp[1])
    IN IF mt = None THEN None
       ELSE Some([mime |-> mt[1], q |-> Quality(sp[2])])

RECURSIVE FilterMapCandidates(_, _)
FilterMapCandidates(b, segs) ==
    IF segs = <<>> THEN <<>>
    ELSE ParseCandidate(b, Trim(Head(segs))) \o FilterMapCandidates(b, Tail(segs))

\* the candidates of an Accept value, in header order
Candidates(b, s) == FilterMapCandidates(b, Split(s, ","))

\* Variant: the comparison with its arguments swapped (the least weight wins).
CompareQ_swapped(c1, c2) == LET o == PartialCmp(c2.q, c1.q)
                            IN IF o = None THEN "Greater" ELSE o[1]

\* the comparison handed to max_by
CompareQ(c1, c2) == LET o == PartialCmp(c1.q, c2.q)
                    IN IF o = None THEN "Greater" ELSE o[1]

\* Iterator::max_by is reduce(|x, y| match compare(&x, &y) { Greater => x, _ => y }):
\* the position of the candidate it returns, acc being the position kept so far
RECURSIVE MaxByFrom(_, _, _)
MaxByFrom(cands, acc, i) ==
    IF i > Len(cands) THEN acc
    ELSE MaxByFrom(cands, IF CompareQ(cands[acc], cands[i]) = "Greater" THEN acc ELSE i, i + 1)

\* position in cands of the candidate max_by returns, 0 when there is none
MaxBy(cands) == IF cands = <<>> THEN 0 ELSE MaxByFrom(cands, 1, 2)

\* the value negotiate() parses: the first Accept header, or DEFAULT_CONTENT_TYPE
AcceptValue(b, headers) == LET a == Get(headers.accept)
                           IN IF a = None THEN DEFAULT_CONTENT_TYPE_VALUE(b) ELSE a[1]

\* Variant: negotiate() falling back to the default when nothing resolves.
negotiate_or_default(b, headers) ==
    LET s == to_str(AcceptValue(b, headers))
    IN IF s = None THEN Some(DEFAULT_CONTENT_TYPE_VALUE(b))
       ELSE LET cands == Candidates(b, s[1])
                i     == MaxBy(cands)
            IN IF i = 0 THEN Some(DEFAULT_CONTENT_TYPE_VALUE(b)) ELSE Some(cands[i].mime)

\* AcceptExt::negotiate
negotiate(b, headers) ==
    LET s == to_str(AcceptValue(b, headers))
    IN IF s = None THEN None
       ELSE LET cands == Candidates(b, s[1])
                i     == MaxBy(cands)
            IN IF i = 0 THEN None ELSE Some(cands[i].mime)

\* ------------------------------------------------------------------ codecs

UNSUPPORTED_MEDIA_TYPE == 415

NOT_ACCEPTABLE == 406

INTERNAL_SERVER_ERROR == 500

BAD_REQUEST == 400

\* axum's status for a body over the length limit
PAYLOAD_TOO_LARGE == 413

OK == 200

CREATED == 201

TEXT_PLAIN_UTF_8 == <<"t","e","x","t","/","p","l","a","i","n",";"," ","c","h","a","r","s","e","t","=","u","t","f","-","8">>

INVALID_CONTENT_TYPE == <<"I","n","v","a","l","i","d"," ","c","o","n","t","e","n","t"," ","t","y","p","e"," ","o","n"," ","r","e","q","u","e","s","t">>

MISCONFIGURED == <<"M","i","s","c","o","n","f","i","g","u","r","e","d"," ","s","e","r","v","i","c","e"," ","l","a","y","e","r">>

FAILED_TO_SERIALIZE == <<"F","a","i","l","e","d"," ","t","o"," ","s","e","r","i","a","l","i","z","e"," ","r","e","s","p","o","n","s","e">>

MALFORMED_BODY == <<"M","a","l","f","o","r","m","e","d"," ","r","e","q","u","e","s","t"," ","b","o","d","y">>

\* The values a handler wraps in Negotiate: the tests' Example { message }, a map
\* keyed by a tuple (serde_json refuses a key that is no string, CBOR takes it),
\* and a value whose Serialize impl returns an error.
Example(m) == [t |-> "Example", message |-> m]

TupleKeyMap == [t |-> "TupleKeyMap", message |-> <<>>]

Unserializable == [t |-> "Unserializable", message |-> <<>>]

\* the messages of the handlers' payloads: the empty one, a short one, one with
\* the characters JSON escapes, one of 24 bytes (the first length CBOR writes
\* in a byte of its own)
Messages ==
    { <<>>, <<"h","i">>, <<"a","\"","\\","0x0A","0x01">>,
      <<"H","e","l","l","o",","," ","c","o","n","t","e","n","t"," ","t","y","p","e","s","!","!","!","!">> }

MESSAGE == <<"m","e","s","s","a","g","e">>

At(s, i) == IF i >= 1 /\ i <= Len(s) THEN s[i] ELSE ""

\* the bytes below 0x20
ControlBytes == {ByteToken(n) : n \in 0..31}

\* serde_json's format_escaped_str_contents, on one byte
JsonEscape(c) ==
    IF c = "\"" THEN <<"\\", "\"">>
    ELSE IF c = "\\" THEN <<"\\", "\\">>
    ELSE IF c = "0x08" THEN <<"\\", "b">>
    ELSE IF c = "\t" THEN <<"\\", "t">>
    ELSE IF c = "0x0A" THEN <<"\\", "n">>
    ELSE IF c = "0x0C" THEN <<"\\", "f">>
    ELSE IF c = "0x0D" THEN <<"\\", "r">>
    ELSE IF c \in ControlBytes
         THEN LET hex == <<"0","1","2","3","4","5","6","7","8","9","a","b","c","d","e","f">>
              IN <<"\\", "u", "0", "0", hex[(ByteOf(c) \div 16) + 1], hex[(ByteOf(c) % 16) + 1]>>
    ELSE <<c>>

\* the escaped bytes of a text, half by half
RECURSIVE JsonEscaped(_)
JsonEscaped(t) ==
    IF t = <<>> THEN <<>>
    ELSE IF Len(t) = 1 THEN JsonEscape(t[1])
    ELSE JsonEscaped(SubSeq(t, 1, Len(t) \div 2)) \o JsonEscaped(SubSeq(t, Len(t) \div 2 + 1, Len(t)))

\* serde_json::Serializer driven by erased_serialize: Some(bytes), or None on Err
EncodeJson(v) ==
    IF v.t = "Example"
    THEN Some(<<"{", "\"">> \o MESSAGE \o <<"\"", ":", "\"">> \o JsonEscaped(v.message) \o <<"\"", "}">>)
    ELSE None

\* the head of a CBOR item: the major type and its argument in the shortest form
CborHead(major, n) ==
    IF n < 24 THEN <<ByteToken(32 * major + n)>>
    ELSE IF n < 256 THEN <<ByteToken(32 * major + 24), ByteToken(n)>>
    ELSE IF n < 65536 THEN <<ByteToken(32 * major + 25), ByteToken(n \div 256), ByteToken(n % 256)>>
    ELSE <<ByteToken(32 * major + 26), ByteToken(n \div 16777216), ByteToken((n \div 65536) % 256),
           ByteToken((n \div 256) % 256), ByteToken(n % 256)>>

\* a CBOR text string: the head of major type 3 with the number of bytes, the bytes
CborText(t) == CborHead(3, Len(t)) \o t

\* cbor4ii::serde::Serializer driven by erased_serialize
EncodeCbor(v) ==
    IF v.t = "Example"
    THEN Some(CborHead(5, 1) \o CborText(MESSAGE) \o CborText(v.message))
    ELSE IF v.t = "TupleKeyMap"
    THEN Some(<<"0xA1", "0x82", "0x01", "0x02", "0x03">>)
    ELSE None

\* ---- UTF-8, as str::from_utf8 accepts it

Utf8Cont == {ByteToken(n) : n \in 128..191}

\* the second byte a lead byte allows (no overlong form, no surrogate, at most U+10FFFF)
Utf8Second(lead) ==
    IF lead = "0xE0" THEN {ByteToken(n) : n \in 160..191}
    ELSE IF lead = "0xED" THEN {ByteToken(n) : n \in 128..159}
    ELSE IF lead = "0xF0" THEN {ByteToken(n) : n \in 144..191}
    ELSE IF lead = "0xF4" THEN {ByteToken(n) : n \in 128..143}
    ELSE Utf8Cont

\* the bytes of the character a lead byte starts, 0 for a byte that starts none
Utf8Width(c) ==
    IF c \in {ByteToken(n) : n \in 194..223} THEN 2
    ELSE IF c \in {ByteToken(n) : n \in 224..239} THEN 3
    ELSE IF c \in {ByteToken(n) : n \in 240..244} THEN 4
    ELSE 0

\* the byte at i starts a well-formed character of more than one byte
Utf8Starts(b, i) ==
    /\ Utf8Width(At(b, i)) > 0
    /\ At(b, i + 1) \in Utf8Second(b[i])
    /\ \A k \in 2..(Utf8Width(b[i]) - 1) : At(b, i + k) \in Utf8Cont

\* every byte is ASCII, or starts a well-formed character, or belongs to the
\* character started one, two or three bytes before it
Utf8Valid(b) ==
    \A i \in 1..Len(b) :
        \/ b[i] \notin ObsTextBytes
        \/ Utf8Starts(b, i)
        \/ /\ b[i] \in Utf8Cont
           /\ \E k \in 1..3 : Utf8Starts(b, i - k) /\ Utf8Width(b[i - k]) > k

\* char::encode_utf8
Utf8Encode(cp) ==
    IF cp < 128 THEN <<ByteToken(cp)>>
    ELSE IF cp < 2048 THEN <<ByteToken(192 + (cp \div 64)), ByteToken(128 + (cp % 64))>>
    ELSE IF cp < 65536
         THEN <<ByteToken(224 + (cp \div 4096)), ByteToken(128 + ((cp \div 64) % 64)),
                ByteToken(128 + (cp % 64))>>
    ELSE <<ByteToken(240 + (cp \div 262144)), ByteToken(128 + ((cp \div 4096) % 64)),
           ByteToken(128 + ((cp \div 64) % 64)), ByteToken(128 + (cp % 64))>>

\* ---- serde_json::from_slice::<Example>

\* what reading a string gives: the position behind it and its bytes
NoText == [ok |-> FALSE, pos |-> 0, val |-> <<>>]

Text(p, v) == [ok |-> TRUE, pos |-> p, val |-> v]

\* the position of the first byte from i on that is not in S, Len(s) + 1 if none
RunEnd(s, i, S) ==
    IF i > Len(s) THEN i
    ELSE CHOOSE j \in i..(Len(s) + 1) :
            /\ j = Len(s) + 1 \/ s[j] \notin S
            /\ \A k \in i..(j - 1) : s[k] \in S

\* parse_whitespace: the position of the first byte from i on that is no whitespace
SkipWs(s, i) == RunEnd(s, i, {" ", "\t", "0x0A", "0x0D"})

HexVal(c) ==
    IF c \in Digits THEN DigitVal(c)
    ELSE IF c \in {"a", "A"} THEN 10
    ELSE IF c \in {"b", "B"} THEN 11
    ELSE IF c \in {"c", "C"} THEN 12
    ELSE IF c \in {"d", "D"} THEN 13
    ELSE IF c \in {"e", "E"} THEN 14
    ELSE IF c \in {"f", "F"} THEN 15
    ELSE 0 - 1

\* decode_hex_escape: the value of the four hex digits from i on, -1 when they are not
Hex4(s, i) ==
    IF \E k \in 0..3 : HexVal(At(s, i + k)) < 0 THEN 0 - 1
    ELSE 4096 * HexVal(s[i]) + 256 * HexVal(s[i + 1]) + 16 * HexVal(s[i + 2]) + HexVal(s[i + 3])

\* the byte of a one-letter escape
EscapeByte(c) ==
    IF c = "b" THEN "0x08"
    ELSE IF c = "f" THEN "0x0C"
    ELSE IF c = "n" THEN "0x0A"
    ELSE IF c = "r" THEN "0x0D"
    ELSE IF c = "t" THEN "\t"
    ELSE c

SimpleEscapes == {"\"", "\\", "/", "b", "f", "n", "r", "t"}

\* parse_unicode_escape, i at the first hex digit: the bytes of the character and
\* the position behind the escape; a surrogate (0xD800..0xDBFF the first half,
\* 0xDC00..0xDFFF the second) counts only as the first half of a pair
UnicodeEscape(s, i) ==
    IF Hex4(s, i) < 0 \/ Hex4(s, i) \in 56320..57343 THEN NoText
    ELSE IF Hex4(s, i) \in 55296..56319
         THEN IF At(s, i + 4) = "\\" /\ At(s, i + 5) = "u" /\ Hex4(s, i + 6) \in 56320..57343
              THEN Text(i + 10, Utf8Encode(65536 + (Hex4(s, i) - 55296) * 1024
                                             + (Hex4(s, i + 6) - 56320)))
              ELSE NoText
    ELSE Text(i + 4, Utf8Encode(Hex4(s, i)))

\* the bytes a string holds as they are: all but the quote, the backslash and the
\* control bytes
PlainBytes == {ByteToken(n) : n \in 32..255} \ {"\"", "\\"}

\* parse_str, i behind the opening quote and acc the bytes read so far
RECURSIVE ParseStr(_, _, _)
ParseStr(s, i, acc) ==
    IF i > Len(s) THEN NoText
    ELSE IF s[i] = "\"" THEN (IF Utf8Valid(acc) THEN Text(i + 1, acc) ELSE NoText)
    ELSE IF s[i] = "\\"
         THEN IF At(s, i + 1) \in SimpleEscapes
              THEN ParseStr(s, i + 2, Append(acc, EscapeByte(s[i + 1])))
              ELSE IF At(s, i + 1) = "u" /\ UnicodeEscape(s, i + 2).ok
              THEN ParseStr(s, UnicodeEscape(s, i + 2).pos, acc \o UnicodeEscape(s, i + 2).val)
              ELSE NoText
    ELSE IF s[i] \in ControlBytes THEN NoText
    ELSE ParseStr(s, RunEnd(s, i, PlainBytes), acc \o SubSeq(s, i, RunEnd(s, i, PlainBytes) - 1))

\* The ignore_* functions give the position behind what they skip, 0 on an error.

\* ignore_str, i behind the opening quote
RECURSIVE IgnoreStr(_, _)
IgnoreStr(s, i) ==
    IF i > Len(s) THEN 0
    ELSE IF s[i] = "\"" THEN i + 1
    ELSE IF s[i] = "\\"
         THEN IF At(s, i + 1) \in SimpleEscapes THEN IgnoreStr(s, i + 2)
              ELSE IF At(s, i + 1) = "u" /\ Hex4(s, i + 2) >= 0 THEN IgnoreStr(s, i + 6)
              ELSE 0
    ELSE IF s[i] \in ControlBytes THEN 0
    ELSE IgnoreStr(s, RunEnd(s, i, PlainBytes))

\* what may follow the digits of a number, i behind them: ignore_exponent, an e,
\* a sign or none, digits
IgnoreNumberTail(s, i) ==
    IF At(s, i) \notin {"e", "E"} THEN i
    ELSE IF At(s, i + 1) \in {"+", "-"}
    THEN (IF At(s, i + 2) \in Digits THEN RunEnd(s, i + 3, Digits) ELSE 0)
    ELSE (IF At(s, i + 1) \in Digits THEN RunEnd(s, i + 2, Digits) ELSE 0)

\* what may follow the integer part, i behind it: ignore_decimal, a point and
\* digits, and what may follow them
IgnoreFraction(s, i) ==
    IF At(s, i) # "." THEN IgnoreNumberTail(s, i)
    ELSE IF At(s, i + 1) \in Digits THEN IgnoreNumberTail(s, RunEnd(s, i + 2, Digits))
    ELSE 0

\* ignore_integer, i at the first digit
IgnoreInteger(s, i) ==
    IF At(s, i) = "0" THEN (IF At(s, i + 1) \in Digits THEN 0 ELSE IgnoreFraction(s, i + 1))
    ELSE IF At(s, i) \in Digits THEN IgnoreFraction(s, RunEnd(s, i + 1, Digits))
    ELSE 0

\* parse_ident
IgnoreIdent(s, i, word) ==
    IF i + Len(word) - 1 <= Len(s) /\ SubSeq(s, i, i + Len(word) - 1) = word
    THEN i + Len(word) ELSE 0

RECURSIVE IgnoreValue(_, _)

RECURSIVE IgnoreElements(_, _)

RECURSIVE IgnoreMembers(_, _)

\* what follows an element of an array, i behind the element
IgnoreElementEnd(s, i) ==
    IF i = 0 THEN 0
    ELSE IF At(s, SkipWs(s, i)) = "," THEN IgnoreElements(s, SkipWs(s, i) + 1)
    ELSE IF At(s, SkipWs(s, i)) = "]" THEN SkipWs(s, i) + 1
    ELSE 0

\* the elements of an array, i at the start of one
IgnoreElements(s, i) == IgnoreElementEnd(s, IgnoreValue(s, i))

\* what follows a member of an object, i behind the member's value
IgnoreMemberEnd(s, i) ==
    IF i = 0 THEN 0
    ELSE IF At(s, SkipWs(s, i)) = "," THEN IgnoreMembers(s, SkipWs(s, i) + 1)
    ELSE IF At(s, SkipWs(s, i)) = "}" THEN SkipWs(s, i) + 1
    ELSE 0

\* the colon and the value of a member, i behind the key
IgnoreMemberValue(s, i) ==
    IF i = 0 \/ At(s, SkipWs(s, i)) # ":" THEN 0
    ELSE IgnoreMemberEnd(s, IgnoreValue(s, SkipWs(s, i) + 1))

\* the members of an object, i where a key is due
IgnoreMembers(s, i) ==
    IF At(s, SkipWs(s, i)) # "\"" THEN 0
    ELSE IgnoreMemberValue(s, IgnoreStr(s, SkipWs(s, i) + 1))

\* ignore_value: the value of a field Example does not have, behind any whitespace
IgnoreValue(s, i0) ==
    LET i == SkipWs(s, i0)
    IN IF At(s, i) = "n" THEN IgnoreIdent(s, i, <<"n","u","l","l">>)
       ELSE IF At(s, i) = "t" THEN IgnoreIdent(s, i, <<"t","r","u","e">>)
       ELSE IF At(s, i) = "f" THEN IgnoreIdent(s, i, <<"f","a","l","s","e">>)
       ELSE IF At(s, i) = "-" THEN IgnoreInteger(s, i + 1)
       ELSE IF At(s, i) \in Digits THEN IgnoreInteger(s, i)
       ELSE IF At(s, i) = "\"" THEN IgnoreStr(s, i + 1)
       ELSE IF At(s, i) = "["
            THEN (IF At(s, SkipWs(s, i + 1)) = "]" THEN SkipWs(s, i + 1) + 1
                  ELSE IgnoreElements(s, i + 1))
       ELSE IF At(s, i) = "{"
            THEN (IF At(s, SkipWs(s, i + 1)) = "}" THEN SkipWs(s, i + 1) + 1
                  ELSE IgnoreMembers(s, i + 1))
       ELSE 0

\* String::deserialize: a string, behind any whitespace
ParseString(s, i) ==
    IF At(s, SkipWs(s, i)) = "\"" THEN ParseStr(s, SkipWs(s, i) + 1, <<>>) ELSE NoText

RECURSIVE JsonFields(_, _, _, _)

\* the value of the field k names, msg the message read so far: a second message
\* is a duplicate field, any other field is read and dropped
JsonFieldValue(s, k, msg) ==
    IF ~k.ok \/ At(s, SkipWs(s, k.pos)) # ":" THEN NoText
    ELSE IF k.val = MESSAGE
         THEN IF msg # None \/ ~ParseString(s, SkipWs(s, k.pos) + 1).ok THEN NoText
              ELSE JsonFields(s, ParseString(s, SkipWs(s, k.pos) + 1).pos,
                              Some(ParseString(s, SkipWs(s, k.pos) + 1).val), FALSE)
    ELSE IF IgnoreValue(s, SkipWs(s, k.pos) + 1) = 0 THEN NoText
         ELSE JsonFields(s, IgnoreValue(s, SkipWs(s, k.pos) + 1), msg, FALSE)

\* a field, i where its key is due
JsonField(s, i, msg) ==
    IF At(s, i) # "\"" THEN NoText ELSE JsonFieldValue(s, ParseStr(s, i + 1, <<>>), msg)

\* visit_map of the derived Deserialize, i behind the brace or a field: the
\* message, once the closing brace is read
JsonFields(s, i, msg, first) ==
    IF At(s, SkipWs(s, i)) = "}"
    THEN (IF msg = None THEN NoText ELSE Text(SkipWs(s, i) + 1, msg[1]))
    ELSE IF first THEN JsonField(s, SkipWs(s, i), msg)
    ELSE IF At(s, SkipWs(s, i)) = "," THEN JsonField(s, SkipWs(s, SkipWs(s, i) + 1), msg)
    ELSE NoText

\* visit_seq of the derived Deserialize, i behind the bracket: one string, then
\* the closing bracket
JsonSeq(s, i) ==
    IF ~ParseString(s, i).ok \/ At(s, SkipWs(s, ParseString(s, i).pos)) # "]" THEN NoText
    ELSE Text(SkipWs(s, ParseString(s, i).pos) + 1, ParseString(s, i).val)

\* deserialize_struct: an object or an array, behind any whitespace
JsonStruct(s) ==
    IF At(s, SkipWs(s, 1)) = "{" THEN JsonFields(s, SkipWs(s, 1) + 1, None, TRUE)
    ELSE IF At(s, SkipWs(s, 1)) = "[" THEN JsonSeq(s, SkipWs(s, 1) + 1)
    ELSE NoText

\* Deserializer::end: whitespace only behind the value
JsonDocument(s, r) ==
    IF r.ok /\ SkipWs(s, r.pos) = Len(s) + 1 THEN Some(Example(r.val)) ELSE None

\* serde_json::from_slice::<Example> (simd_json::from_slice with feature simd-json)
DecodeJson(body) == JsonDocument(body, JsonStruct(body))

\* ---- cbor4ii::serde::from_slice::<Example>

\* the big-endian number of the n bytes from i on; once it is past the length of
\* the input it is left as it is: no length or count that large can be met
RECURSIVE BigEndian(_, _, _, _)
BigEndian(s, i, n, v) ==
    IF n = 0 THEN v
    ELSE BigEndian(s, i + 1, n - 1, IF v > Len(s) THEN v ELSE 256 * v + ByteOf(s[i]))

NoHead == [ok |-> FALSE, major |-> 0, arg |-> 0, pos |-> 0, indef |-> FALSE]

\* the head of the item at i: major type, argument, position behind the head; the
\* low bits of the head byte are the argument, or 24..27 for an argument in the 1,
\* 2, 4 or 8 bytes that follow, or 31 for an indefinite length
CborHeadAt(s, i) ==
    IF i > Len(s) THEN NoHead
    ELSE LET major == ByteOf(s[i]) \div 32
             info  == ByteOf(s[i]) % 32
             n     == <<1, 2, 4, 8>>[info - 23]
         IN IF info < 24
            THEN [ok |-> TRUE, major |-> major, arg |-> info, pos |-> i + 1, indef |-> FALSE]
            ELSE IF info <= 27
            THEN IF i + n > Len(s) THEN NoHead
                 ELSE [ok |-> TRUE, major |-> major, arg |-> BigEndian(s, i + 1, n, 0),
                       pos |-> i + 1 + n, indef |-> FALSE]
            ELSE IF info = 31
            THEN [ok |-> TRUE, major |-> major, arg |-> 0, pos |-> i + 1, indef |-> TRUE]
            ELSE NoHead

\* the n bytes behind a definite head h of major type 3
CborDefiniteText(s, h) ==
    IF ~h.ok \/ h.major # 3 \/ h.indef \/ h.pos + h.arg - 1 > Len(s) THEN NoText
    ELSE Text(h.pos + h.arg, SubSeq(s, h.pos, h.pos + h.arg - 1))

\* the chunks of a text string of indefinite length, up to the break
RECURSIVE CborChunks(_, _, _)
CborChunks(s, i, acc) ==
    IF At(s, i) = "0xFF" THEN Text(i + 1, acc)
    ELSE IF ~CborDefiniteText(s, CborHeadAt(s, i)).ok THEN NoText
    ELSE CborChunks(s, CborDefiniteText(s, CborHeadAt(s, i)).pos,
                    acc \o CborDefiniteText(s, CborHeadAt(s, i)).val)

\* deserialize_str: the text string at i, of definite length or in chunks, its
\* bytes checked to be UTF-8
CborTextAt(s, i) ==
    LET h == CborHeadAt(s, i)
        r == IF h.ok /\ h.major = 3 /\ h.indef THEN CborChunks(s, h.pos, <<>>)
             ELSE CborDefiniteText(s, h)
    IN IF r.ok /\ Utf8Valid(r.val) THEN r ELSE NoText

\* The CborIgnore* operators give the position behind what they skip, 0 on an error.
RECURSIVE CborIgnore(_, _)

\* n items from i on
RECURSIVE CborIgnoreItems(_, _, _)
CborIgnoreItems(s, i, n) ==
    IF i = 0 THEN 0
    ELSE IF n = 0 THEN i
    ELSE CborIgnoreItems(s, CborIgnore(s, i), n - 1)

\* groups of n items up to the break
RECURSIVE CborIgnoreToBreak(_, _, _)
CborIgnoreToBreak(s, i, n) ==
    IF i = 0 THEN 0
    ELSE IF At(s, i) = "0xFF" THEN i + 1
    ELSE CborIgnoreToBreak(s, CborIgnoreItems(s, i, n), n)

\* the chunks of a string of major type m and indefinite length, up to the break
RECURSIVE CborIgnoreChunks(_, _, _)
CborIgnoreChunks(s, i, m) ==
    IF At(s, i) = "0xFF" THEN i + 1
    ELSE IF \/ ~CborHeadAt(s, i).ok
            \/ CborHeadAt(s, i).major # m
            \/ CborHeadAt(s, i).indef
            \/ CborHeadAt(s, i).pos + CborHeadAt(s, i).arg - 1 > Len(s) THEN 0
    ELSE CborIgnoreChunks(s, CborHeadAt(s, i).pos + CborHeadAt(s, i).arg, m)

\* the item whose head is h
CborIgnoreItem(s, h) ==
    IF ~h.ok THEN 0
    ELSE IF h.major \in {0, 1} THEN (IF h.indef THEN 0 ELSE h.pos)
    ELSE IF h.major \in {2, 3}
         THEN IF h.indef THEN CborIgnoreChunks(s, h.pos, h.major)
              ELSE IF h.pos + h.arg - 1 > Len(s) THEN 0
              ELSE h.pos + h.arg
    ELSE IF h.major = 4
         THEN (IF h.indef THEN CborIgnoreToBreak(s, h.pos, 1) ELSE CborIgnoreItems(s, h.pos, h.arg))
    ELSE IF h.major = 5
         THEN (IF h.indef THEN CborIgnoreToBreak(s, h.pos, 2)
               ELSE CborIgnoreItems(s, h.pos, 2 * h.arg))
    ELSE IF h.major = 6 THEN (IF h.indef THEN 0 ELSE CborIgnore(s, h.pos))
    ELSE (IF h.indef THEN 0 ELSE h.pos)

\* dec::IgnoredAny: the item at i
CborIgnore(s, i) == CborIgnoreItem(s, CborHeadAt(s, i))

RECURSIVE CborFields(_, _, _, _)

\* the value of the entry k names, n entries left behind it
CborFieldValue(s, k, n, msg) ==
    IF ~k.ok THEN NoText
    ELSE IF k.val = MESSAGE
         THEN IF msg # None \/ ~CborTextAt(s, k.pos).ok THEN NoText
              ELSE CborFields(s, CborTextAt(s, k.pos).pos, n, Some(CborTextAt(s, k.pos).val))
    ELSE IF CborIgnore(s, k.pos) = 0 THEN NoText
         ELSE CborFields(s, CborIgnore(s, k.pos), n, msg)

\* visit_map of the derived Deserialize over the map's entries: n of them left, or,
\* with n = -1, those up to the break
CborFields(s, i, n, msg) ==
    IF n = 0 \/ (n < 0 /\ At(s, i) = "0xFF")
    THEN (IF msg = None THEN NoText ELSE Text(i, msg[1]))
    ELSE CborFieldValue(s, CborTextAt(s, i), IF n < 0 THEN n ELSE n - 1, msg)

\* cbor4ii::serde::from_slice::<Example>: deserialize_struct is deserialize_map, so
\* the item must be a map; what follows the map is not looked at
DecodeCbor(body) ==
    LET h == CborHeadAt(body, 1)
        r == IF ~h.ok \/ h.major # 5 THEN NoText
             ELSE CborFields(body, h.pos, IF h.indef THEN 0 - 1 ELSE h.arg, None)
    IN IF r.ok THEN Some(Example(r.val)) ELSE None

\* ------------------------------------------------------------------ responses

\* A response is [status, headers, extensions, body]; headers is the set of
\* <<name, value>> pairs of the HeaderMap, extensions maps a type to its value.
NoExtensions == [erased |-> None, other |-> None]

\* HeaderMap::insert: replaces every value of the name
Insert(headers, name, value) == {h \in headers : h[1] # name} \cup {<<name, value>>}


HeaderValues(headers, name) == {h[2] : h \in {x \in headers : x[1] = name}}

\* Variant: a text response without a Content-Type header.
TextResponse_bare(status, text) ==
    [status     |-> status,
     headers    |-> {},
     extensions |-> NoExtensions,
     body       |-> text]

\* (StatusCode, &'static str)::into_response
TextResponse(status, text) ==
    [status     |-> status,
     headers    |-> {<<"content-type", TEXT_PLAIN_UTF_8>>},
     extensions |-> NoExtensions,
     body       |-> text]

\* Variant: the placeholder built with status 200.
NegotiateIntoResponse_ok(v) ==
    LET r == TextResponse(OK, MISCONFIGURED)
    IN [r EXCEPT !.extensions.erased = Some(v)]

\* impl IntoResponse for Negotiate<T>
NegotiateIntoResponse(v) ==
    LET r == TextResponse(UNSUPPORTED_MEDIA_TYPE, MISCONFIGURED)
    IN [r EXCEPT !.extensions.erased = Some(v)]

\* ------------------------------------------------------------------ extractor

\* the Content-Type from_request matches on: the first header, or DEFAULT_CONTENT_TYPE
ContentTypeValue(b, headers) ==
    LET c == Get(headers.content_type)
    IN IF c = None THEN DEFAULT_CONTENT_TYPE_VALUE(b) ELSE c[1]

\* Variant: a body that does not decode reaches the handler as an empty Example.
DecodeArm_lenient(d) ==
    [value     |-> IF d = None THEN Some(Example(<<>>)) ELSE d,
     rejection |-> None,
     bodyReads |-> 1,
     decodes   |-> 1]

\* a codec arm of from_request once the body is there: from_slice, then the value
\* or MALFORMED_RESPONSE
DecodeArm(d) ==
    [value     |-> d,
     rejection |-> IF d = None THEN Some(TextResponse(BAD_REQUEST, MALFORMED_BODY)) ELSE None,
     bodyReads |-> 1,
     decodes   |-> 1]

\* a codec arm of from_request: Bytes::from_request(req, state).await, whose
\* rejection is returned as the response it turns into (map_err, `?`) before
\* from_slice is reached; d is what from_slice makes of the bytes
BodyArm(r, d) ==
    IF r.failure = None THEN DecodeArm(d)
    ELSE [value |-> None, rejection |-> r.failure, bodyReads |-> 1, decodes |-> 0]

\* the `_` arm of from_request
UnsupportedArm ==
    [value     |-> None,
     rejection |-> Some(TextResponse(NOT_ACCEPTABLE, INVALID_CONTENT_TYPE)),
     bodyReads |-> 0,
     decodes   |-> 0]

\* Variant: the Content-Type matched on its token, parameters ignored.
from_request_ignores_params(b, r) ==
    LET ct == SplitOnce(ContentTypeValue(b, r.headers), ";")[1]
    IN IF b.json /\ ct = APPLICATION_JSON THEN BodyArm(r, DecodeJson(r.body))
       ELSE IF b.cbor /\ ct = APPLICATION_CBOR THEN BodyArm(r, DecodeCbor(r.body))
       ELSE UnsupportedArm

\* Negotiate::<T>::from_request: the value or the rejection, and what it consumed
from_request(b, r) ==
    LET ct == ContentTypeValue(b, r.headers)
    IN IF b.json /\ ct = APPLICATION_JSON THEN BodyArm(r, DecodeJson(r.body))
       ELSE IF b.cbor /\ ct = APPLICATION_CBOR THEN BodyArm(r, DecodeCbor(r.body))
       ELSE UnsupportedArm

\* ------------------------------------------------------------------ handler

\* the decimal digits of a length
RECURSIVE IntToText(_)
IntToText(n) == (IF n < 10 THEN <<>> ELSE IntToText(n \div 10))
                \o <<<<"0","1","2","3","4","5","6","7","8","9">>[(n % 10) + 1]>>

\* format!("Hello, {}!", input.message), the reply of the tests' handlers
Greeting(v) ==
    [kind |-> "text", status |-> Some(OK), value |-> Unserializable,
     text |-> <<"H","e","l","l","o",","," ">> \o v.message \o <<"!">>]

\* What a handler returns: Negotiate(v), (status, Negotiate(v)), (status, text) or ().
HandlerOutputs ==
    { [kind |-> "negotiate", status |-> st, value |-> v, text |-> <<>>] :
        st \in {None, Some(OK), Some(CREATED)},
        v \in {Example(m) : m \in Messages} \cup {TupleKeyMap, Unserializable} }
    \cup { [kind |-> "text", status |-> Some(st), value |-> Unserializable,
            text |-> <<"H","e","l","l","o",","," ","h","i","!">>] :
        st \in {OK, UNSUPPORTED_MEDIA_TYPE} }
    \cup { [kind |-> "unit", status |-> None, value |-> Unserializable, text |-> <<>>] }

\* IntoResponse of a handler's return value: Negotiate's own, (StatusCode, R)'s,
\* which is R's response with the status replaced, and ()'s, 200 with an empty body
IntoResponse(out) ==
    IF out.kind = "negotiate"
    THEN IF out.status = None THEN NegotiateIntoResponse(out.value)
         ELSE [NegotiateIntoResponse(out.value) EXCEPT !.status = out.status[1]]
    ELSE IF out.kind = "text" THEN TextResponse(out.status[1], out.text)
    ELSE [status |-> OK, headers |-> {}, extensions |-> NoExtensions, body |-> <<>>]

REQUEST_ID == <<"r","4","2">>

\* What the stack between the handler and the layer adds to a response: axum's
\* Route sets Content-Length from the body, an inner middleware may add a header
\* and an extension of its own.
Decorate(r, setLen, extra) ==
    LET h1 == IF setLen THEN Insert(r.headers, "content-length", IntToText(Len(r.body)))
              ELSE r.headers
        h2 == IF extra THEN Insert(h1, "x-request-id", REQUEST_ID) ELSE h1
    IN [r EXCEPT !.headers = h2,
                 !.extensions.other = IF extra THEN Some("trace") ELSE None]

\* ------------------------------------------------------------------ layer

\* `match encoding`: the body erased_serialize produced, None when it returned Err
EncodeBody(b, enc, payload) ==
    IF b.json /\ enc = APPLICATION_JSON THEN EncodeJson(payload)
    ELSE IF b.cbor /\ enc = APPLICATION_CBOR THEN EncodeCbor(payload)
    ELSE Some(<<>>)

\* whether `match encoding` reaches an erased_serialize call
CallsSerialize(b, enc) ==
    (b.json /\ enc = APPLICATION_JSON) \/ (b.cbor /\ enc = APPLICATION_CBOR)

\* Variant: the status set to 200 unconditionally.
FinalStatus_always_ok(status) == OK

\* `if parts.status == UNSUPPORTED_MEDIA_TYPE { parts.status = OK }`
FinalStatus(status) == IF status = UNSUPPORTED_MEDIA_TYPE THEN OK ELSE status

\* parts.headers.insert(CONTENT_TYPE, encoding); parts.headers.remove(CONTENT_LENGTH)
FinalHeaders(headers, enc) ==
    {h \in Insert(headers, "content-type", enc) : h[1] # "content-length"}

\* Variant: the re-encoded response built anew, the handler's parts dropped.
Reencoded_fresh(response, enc, body) ==
    [status     |-> FinalStatus(response.status),
     headers    |-> {<<"content-type", enc>>},
     extensions |-> NoExtensions,
     body       |-> body]

\* Response::from_parts(parts, body.into())
Reencoded(response, enc, body) ==
    [status     |-> FinalStatus(response.status),
     headers    |-> FinalHeaders(response.headers, enc),
     extensions |-> response.extensions,
     body       |-> body]

\* Variant: a response without a payload is rewritten too, with an empty body.
PostHandlerResponse_rewrites_all(b, enc, response) ==
    IF response.extensions.erased = None THEN Reencoded(response, enc, <<>>)
    ELSE LET body == EncodeBody(b, enc, response.extensions.erased[1])
         IN IF body = None
            THEN TextResponse(INTERNAL_SERVER_ERROR, FAILED_TO_SERIALIZE)
            ELSE Reencoded(response, enc, body[1])

\* Variant: a failed serialization reported on the handler's own response parts.
PostHandlerResponse_keeps_parts(b, enc, response) ==
    IF response.extensions.erased = None THEN response
    ELSE LET body == EncodeBody(b, enc, response.extensions.erased[1])
         IN IF body = None
            THEN [response EXCEPT !.status = INTERNAL_SERVER_ERROR,
                                  !.body = FAILED_TO_SERIALIZE]
            ELSE Reencoded(response, enc, body[1])

\* The async block of NegotiateService::call after `future.await?`
PostHandlerResponse(b, enc, response) ==
    IF response.extensions.erased = None THEN response
    ELSE LET body == EncodeBody(b, enc, response.extensions.erased[1])
         IN IF body = None
            THEN TextResponse(INTERNAL_SERVER_ERROR, FAILED_TO_SERIALIZE)
            ELSE Reencoded(response, enc, body[1])

\* ------------------------------------------------------------------ inputs

Exch == {1, 2}

TEXT_HTML == <<"t","e","x","t","/","h","t","m","l">>

Q(v) == <<";", "q", "=">> \o v

\* the entries Accept values are made of: the supported tokens with q values that
\* tie, differ, do not parse, are NaN or lie outside [0, 1], a q behind another
\* parameter, a token followed by a space, the wildcard, tokens that do not resolve
AcceptEntries ==
    { APPLICATION_JSON \o t :
        t \in { <<>>, Q(<<"0",".","5">>), Q(<<"0",".","9">>), Q(<<"a","b","c">>),
                Q(<<"n","a","n">>), Q(<<"5">>), Q(<<>>) } }
    \cup { APPLICATION_CBOR \o t :
        t \in { <<>>, Q(<<"0",".","5","0">>), Q(<<"0">>), Q(<<"-","1">>), Q(<<"N","a","N">>),
                <<";","v","=","1",";"," ">> \o <<"q","=","1","e","-","1">>,
                <<" ">> \o Q(<<"0",".","9">>) } }
    \cup { STAR_STAR, STAR_STAR \o Q(<<"0",".","5">>), TEXT_HTML, <<>> }

NOT_SUPPORTED == <<"n","o","t","-","s","u","p","p","o","r","t","e","d">>

SOMETHING_ELSE == <<"s","o","m","e","t","h","i","n","g","-","e","l","s","e">>

\* the Accept values of the tests, three-entry values around them, and q values
\* that differ only beyond the precision of an f32 or lie beyond its range
TestedAccepts ==
    { APPLICATION_JSON \o Q(<<"0",".","1","0","0","0","0","0","0","0","1">>) \o <<",">>
          \o APPLICATION_CBOR \o Q(<<"0",".","1">>),
      APPLICATION_CBOR \o Q(<<"2","e","3","9">>) \o <<",">>
          \o APPLICATION_JSON \o Q(<<"1","e","3","9">>),
      NOT_SUPPORTED \o <<",", " ">> \o APPLICATION_JSON \o Q(<<"5">>) \o <<",">> \o SOMETHING_ELSE,
      APPLICATION_JSON \o Q(<<"0",".","8">>) \o <<";","o","t","h","e","r",";","s","t","u","f","f">>
          \o <<",">> \o APPLICATION_CBOR \o Q(<<"0",".","9">>),
      SOMETHING_ELSE \o Q(<<"0",".","5">>) \o <<",">> \o APPLICATION_CBOR,
      APPLICATION_CBOR \o Q(<<"0",".","2">>) \o <<",">> \o APPLICATION_JSON,
      APPLICATION_CBOR \o Q(<<"0",".","9">>) \o <<",">> \o NOT_SUPPORTED \o <<",">>
          \o APPLICATION_JSON \o Q(<<"0",".","2">>),
      APPLICATION_JSON \o Q(<<"a","b","c">>) \o <<",">> \o STAR_STAR \o Q(<<"n","a","n">>)
          \o <<",">> \o APPLICATION_CBOR \o Q(<<"0",".","5">>),
      APPLICATION_JSON \o Q(<<"n","a","n">>) \o <<",">> \o APPLICATION_CBOR \o Q(<<"a","b","c">>)
          \o <<",">> \o APPLICATION_CBOR \o Q(<<"0",".","5">>) }

\* the most entries an Accept value of the parsing check holds
MaxEntries == 2

RECURSIVE JoinedEntries(_)
JoinedEntries(n) ==
    IF n <= 1 THEN AcceptEntries
    ELSE LET shorter == JoinedEntries(n - 1)
         IN shorter \cup { h \o <<",">> \o e : h \in shorter, e \in AcceptEntries }

TEXT_PLAIN == <<"t","e","x","t","/","p","l","a","i","n">>

NOT_AN_EXAMPLE == <<"{","\"","n","o","t","\"",":","t","r","u","e","}">>

\* {"n":[1,{}], "message" : "\u0068i" } and a line feed: the same Example as a client
\* may write it, with a field Example does not have
ROOMY_JSON ==
    <<"{","\"","n","\"",":","[","1",",","{","}","]",","," ","\"">> \o MESSAGE
    \o <<"\""," ",":"," ","\"","\\","u","0","0","6","8","i","\""," ","}","0x0A">>

\* the map {"n": [1], "message": "hi"} with the key's length in a byte of its own,
\* and a byte behind the map
ROOMY_CBOR ==
    <<"0xA2","a","n","0x81","0x01","x","0x07">> \o MESSAGE \o <<"b","h","i","0x00">>

\* A request: its headers, the bytes of its body, and, when the body cannot be
\* read (the stream breaks, the length limit is passed), the response the
\* rejection of Bytes::from_request turns into.
Request(accept, contentType, body) ==
    [headers |-> [accept |-> accept, content_type |-> contentType], body |-> body,
     failure |-> None]

\* The responses of the rejections of Bytes::from_request, which are axum's: the
\* body is over the length limit, the stream failed.
BodyRejections ==
    LET text == <<"F","a","i","l","e","d"," ","t","o"," ","b","u","f","f","e","r"," ","t","h","e",
                  " ","r","e","q","u","e","s","t"," ","b","o","d","y">>
    IN { TextResponse(PAYLOAD_TOO_LARGE, text), TextResponse(BAD_REQUEST, text) }

\* A route is whether NegotiateLayer wraps the handler (layered), and whether the
\* handler takes a Negotiate<T> argument (extracts).
NoRoute == [layered |-> FALSE, extracts |-> FALSE]

\* the requests sent to a route: body and Content-Type vary where they are read
RequestsFor(r) ==
    IF r.extracts
    THEN { Request(a, c, b) :
             a \in { <<>>, <<APPLICATION_CBOR>>, <<TEXT_HTML>> },
             c \in { <<>>, <<APPLICATION_JSON>>, <<APPLICATION_CBOR>>, <<TEXT_PLAIN>>, <<STAR_STAR>>,
                     <<APPLICATION_JSON \o <<";"," ","c","h","a","r","s","e","t","=","u","t","f","-","8">>>>,
                     <<APPLICATION_CBOR \o Q(<<"0",".","9">>)>> },
             b \in { EncodeJson(Example(<<"h","i">>))[1], EncodeCbor(Example(<<"h","i">>))[1],
                     NOT_AN_EXAMPLE, ROOMY_JSON, ROOMY_CBOR } }
         \cup { [Request(a, c, b) EXCEPT !.failure = Some(f)] :
                  a \in { <<>>, <<APPLICATION_CBOR>> },
                  c \in { <<>>, <<APPLICATION_JSON>>, <<APPLICATION_CBOR>>, <<TEXT_PLAIN>> },
                  b \in { EncodeJson(Example(<<"h","i">>))[1], NOT_AN_EXAMPLE },
                  f \in BodyRejections }
    ELSE { Request(a, <<>>, <<>>) :
             a \in { <<>>, <<APPLICATION_JSON>>, <<APPLICATION_CBOR>>, <<STAR_STAR>>, <<TEXT_HTML>>,
                   <<<<>>>>, <<<<"0xE9">>>>,
                   <<APPLICATION_JSON \o Q(<<"0",".","2">>) \o <<",">> \o APPLICATION_CBOR \o Q(<<"0",".","9">>)>>,
                   <<TEXT_HTML \o <<",", " ">> \o APPLICATION_JSON \o Q(<<"0",".","9">>)>>,
                   <<APPLICATION_JSON \o Q(<<"a","b","c">>)>>,
                   <<APPLICATION_CBOR \o <<",">> \o APPLICATION_JSON>>,
                   <<TEXT_HTML \o <<",">> \o STAR_STAR \o Q(<<"0",".","1">>)>> } }

\* ------------------------------------------------------------------ state machine

\* pc: "idle" (no exchange), "start" (request received), "running" (the inner
\* service was called, its future is pending), "reading" (from_request awaits the
\* body), "returned" (the inner future
\* resolved, the layer has not looked at the response), "failed" (the inner future
\* resolved to Err, the layer has not resumed), "done"; and "parse" /
\* "parsed" for a bare call of negotiate().
InitWith(live, b, r, q, first) ==
    /\ build = b
    /\ route = [e \in Exch |-> IF e \in live THEN r[e] ELSE NoRoute]
    /\ req = [e \in Exch |-> IF e \in live THEN q[e] ELSE Request(<<>>, <<>>, <<>>)]
    /\ pc = [e \in Exch |-> IF e \in live THEN first ELSE "idle"]
    /\ encoding = [e \in Exch |-> None]
    /\ output = [e \in Exch |-> None]
    /\ inner = [e \in Exch |-> None]
    /\ resp = [e \in Exch |-> None]
    /\ invoked = [e \in Exch |-> 0]
    /\ handled = [e \in Exch |-> 0]
    /\ decoded = [e \in Exch |-> None]
    /\ bodyReads = [e \in Exch |-> 0]
    /\ decodes = [e \in Exch |-> 0]
    /\ encodes = [e \in Exch |-> 0]

\* one exchange against any route
Init ==
    \E b \in Builds : \E r \in [layered : BOOLEAN, extracts : BOOLEAN] : \E q \in RequestsFor(r) :
        InitWith({1}, b, [e \in Exch |-> r], [e \in Exch |-> q], "start")

\* Variant: the negotiated media type kept in a field the clones of the service
\* share, so that every exchange in flight sees the latest one.
Call_shared(e) ==
    /\ pc[e] = "start"
    /\ route[e].layered
    /\ LET accept == negotiate(build, req[e].headers)
       IN IF accept = None
          THEN /\ resp' = [resp EXCEPT ![e] = Some(TextResponse(NOT_ACCEPTABLE, INVALID_CONTENT_TYPE))]
               /\ pc' = [pc EXCEPT ![e] = "done"]
               /\ UNCHANGED <<encoding, invoked>>
          ELSE /\ encoding' = [x \in Exch |-> accept]
               /\ invoked' = [invoked EXCEPT ![e] = @ + 1]
               /\ pc' = [pc EXCEPT ![e] = "running"]
               /\ UNCHANGED resp
    /\ UNCHANGED <<build, req, route, output, inner, handled, decoded, bodyReads, decodes,
                   encodes>>

\* NegotiateService::call up to the returned future: negotiate, then either the
\* 406 future or the call of the inner service
Call(e) ==
    /\ pc[e] = "start"
    /\ route[e].layered
    /\ LET accept == negotiate(build, req[e].headers)
       IN IF accept = None
          THEN /\ resp' = [resp EXCEPT ![e] = Some(TextResponse(NOT_ACCEPTABLE, INVALID_CONTENT_TYPE))]
               /\ pc' = [pc EXCEPT ![e] = "done"]
               /\ UNCHANGED <<encoding, invoked>>
          ELSE /\ encoding' = [encoding EXCEPT ![e] = accept]
               /\ invoked' = [invoked EXCEPT ![e] = @ + 1]
               /\ pc' = [pc EXCEPT ![e] = "running"]
               /\ UNCHANGED resp
    /\ UNCHANGED <<build, req, route, output, inner, handled, decoded, bodyReads, decodes,
                   encodes>>

\* a route without the layer: the router calls the handler's service itself
CallUnlayered(e) ==
    /\ pc[e] = "start"
    /\ ~route[e].layered
    /\ invoked' = [invoked EXCEPT ![e] = @ + 1]
    /\ pc' = [pc EXCEPT ![e] = "running"]
    /\ UNCHANGED <<build, req, route, encoding, output, inner, resp, handled, decoded,
                   bodyReads, decodes, encodes>>

\* the inner future resolves to r; the caller has it when no layer wraps the route
Resolve(e, r) ==
    /\ inner' = [inner EXCEPT ![e] = Some(r)]
    /\ IF route[e].layered
       THEN pc' = [pc EXCEPT ![e] = "returned"] /\ UNCHANGED resp
       ELSE pc' = [pc EXCEPT ![e] = "done"] /\ resp' = [resp EXCEPT ![e] = Some(r)]

\* the inner service of a handler with a Negotiate<T> argument, up to the await
\* of from_request: the `_` arm returns its rejection, a codec arm asks for the
\* body and leaves the future pending
InnerExtracts(e) ==
    /\ pc[e] = "running"
    /\ route[e].extracts
    /\ bodyReads' = [bodyReads EXCEPT ![e] = @ + from_request(build, req[e]).bodyReads]
    /\ IF bodyReads'[e] = bodyReads[e]
       THEN \E setLen \in BOOLEAN :
               Resolve(e, Decorate(from_request(build, req[e]).rejection[1], setLen, FALSE))
       ELSE pc' = [pc EXCEPT ![e] = "reading"] /\ UNCHANGED <<inner, resp>>
    /\ UNCHANGED <<build, req, route, encoding, output, invoked, handled, decoded, decodes,
                   encodes>>

\* from_request resumed when the body stream ended: the rejection of the body
\* extractor, or from_slice and then MALFORMED_RESPONSE or the handler's body
BodyRead(e) ==
    /\ pc[e] = "reading"
    /\ LET x == from_request(build, req[e])
       IN /\ decodes' = [decodes EXCEPT ![e] = @ + x.decodes]
          /\ decoded' = [decoded EXCEPT ![e] = x.value]
          /\ IF x.rejection # None
             THEN /\ UNCHANGED <<handled, output>>
                  /\ \E setLen \in BOOLEAN : Resolve(e, Decorate(x.rejection[1], setLen, FALSE))
             ELSE /\ handled' = [handled EXCEPT ![e] = @ + 1]
                  /\ \E out \in HandlerOutputs \cup {Greeting(x.value[1])},
                        setLen \in BOOLEAN, extra \in BOOLEAN :
                        /\ output' = [output EXCEPT ![e] = Some(out)]
                        /\ Resolve(e, Decorate(IntoResponse(out), setLen, extra))
    /\ UNCHANGED <<build, req, route, encoding, invoked, bodyReads, encodes>>

\* the inner service of a handler without arguments
InnerHandles(e) ==
    /\ pc[e] = "running"
    /\ ~route[e].extracts
    /\ handled' = [handled EXCEPT ![e] = @ + 1]
    /\ \E out \in HandlerOutputs, setLen \in BOOLEAN, extra \in BOOLEAN :
          /\ output' = [output EXCEPT ![e] = Some(out)]
          /\ Resolve(e, Decorate(IntoResponse(out), setLen, extra))
    /\ UNCHANGED <<build, req, route, encoding, invoked, decoded, bodyReads, decodes, encodes>>

\* the inner future resolves to Err: behind the layer the async block of call() is
\* resumed with it, without the layer the caller has it
InnerFails(e) ==
    /\ pc[e] = "running"
    /\ pc' = [pc EXCEPT ![e] = IF route[e].layered THEN "failed" ELSE "done"]
    /\ UNCHANGED <<build, req, route, encoding, output, inner, resp, invoked, handled,
                   decoded, bodyReads, decodes, encodes>>

\* `future.await?` on Err: the async block returns the inner error as it is
PropagateError(e) ==
    /\ pc[e] = "failed"
    /\ pc' = [pc EXCEPT ![e] = "done"]
    /\ UNCHANGED <<build, req, route, encoding, output, inner, resp, invoked, handled,
                   decoded, bodyReads, decodes, encodes>>

\* Variant: the async block does not finish, it runs on the response again.
PostHandler_stays(e) ==
    /\ pc[e] = "returned"
    /\ LET response == inner[e][1]
           serialized == response.extensions.erased # None
                         /\ CallsSerialize(build, encoding[e][1])
       IN /\ resp' = [resp EXCEPT ![e] = Some(PostHandlerResponse(build, encoding[e][1], response))]
          /\ encodes' = [encodes EXCEPT ![e] = IF serialized THEN @ + 1 ELSE @]
    /\ UNCHANGED <<build, req, route, pc, encoding, output, inner, invoked, handled, decoded,
                   bodyReads, decodes>>

\* the async block after the await: pass through, or serialize the payload
PostHandler(e) ==
    /\ pc[e] = "returned"
    /\ LET response == inner[e][1]
           serialized == response.extensions.erased # None
                         /\ CallsSerialize(build, encoding[e][1])
       IN /\ resp' = [resp EXCEPT ![e] = Some(PostHandlerResponse(build, encoding[e][1], response))]
          /\ encodes' = [encodes EXCEPT ![e] = IF serialized THEN @ + 1 ELSE @]
    /\ pc' = [pc EXCEPT ![e] = "done"]
    /\ UNCHANGED <<build, req, route, encoding, output, inner, invoked, handled, decoded,
                   bodyReads, decodes>>

Next ==
    \E e \in Exch :
        \/ Call(e)
        \/ CallUnlayered(e)
        \/ InnerExtracts(e)
        \/ BodyRead(e)
        \/ InnerHandles(e)
        \/ InnerFails(e)
        \/ PropagateError(e)
        \/ PostHandler(e)

Spec == Init /\ [][Next]_vars

\* ------------------------------------------------------------------ parsing check

\* negotiate() alone, on the Accept headers of the parsing check: none, one value
\* of up to MaxEntries entries, a value that is not text, two Accept headers, the
\* values of the tests
InitParse ==
    \E b \in Builds :
    \E a \in { <<>> } \cup { <<v>> : v \in JoinedEntries(MaxEntries) \cup TestedAccepts }
              \cup { <<APPLICATION_JSON \o <<"0xE9">>>>, <<APPLICATION_CBOR, APPLICATION_JSON>> } :
        InitWith({1}, b, [e \in Exch |-> NoRoute],
                 [e \in Exch |-> Request(a, <<>>, <<>>)], "parse")

ParseAccept(e) ==
    /\ pc[e] = "parse"
    /\ encoding' = [encoding EXCEPT ![e] = negotiate(build, req[e].headers)]
    /\ pc' = [pc EXCEPT ![e] = "parsed"]
    /\ UNCHANGED <<build, req, route, output, inner, resp, invoked, handled, decoded,
                   bodyReads, decodes, encodes>>

NextParse == \E e \in Exch : ParseAccept(e)

SpecParse == InitParse /\ [][NextParse]_vars

\* ------------------------------------------------------------------ concurrent exchanges

\* the requests of two exchanges in flight at once on one route
ConcurrentRequests(r, e) ==
    IF r.extracts
    THEN IF e = 1
         THEN { Request(<<>>, <<APPLICATION_JSON>>, EncodeJson(Example(<<"h","i">>))[1]),
                Request(<<APPLICATION_CBOR>>, <<TEXT_PLAIN>>, NOT_AN_EXAMPLE) }
              \cup { [Request(<<>>, <<APPLICATION_JSON>>, EncodeJson(Example(<<"h","i">>))[1])
                         EXCEPT !.failure = Some(f)] : f \in BodyRejections }
         ELSE { Request(<<APPLICATION_CBOR>>, <<>>, EncodeCbor(Example(<<"h","i">>))[1]),
                Request(<<APPLICATION_JSON>>, <<APPLICATION_JSON>>, NOT_AN_EXAMPLE) }
    ELSE IF e = 1
         THEN { Request(<<APPLICATION_JSON>>, <<>>, <<>>), Request(<<TEXT_HTML>>, <<>>, <<>>) }
         ELSE { Request(<<APPLICATION_CBOR>>, <<>>, <<>>), Request(<<>>, <<>>, <<>>) }

\* two exchanges through clones of one NegotiateService, in any interleaving
InitConc ==
    \E b \in Builds : \E x \in BOOLEAN :
        LET r == [layered |-> TRUE, extracts |-> x]
        IN \E q1 \in ConcurrentRequests(r, 1) : \E q2 \in ConcurrentRequests(r, 2) :
              InitWith(Exch, b, [e \in Exch |-> r], <<q1, q2>>, "start")

NextConc ==
    \E e \in Exch :
        \/ Call(e)
        \/ InnerExtracts(e)
        \/ BodyRead(e)
        \/ InnerHandles(e)
        \/ InnerFails(e)
        \/ PropagateError(e)
        \/ PostHandler(e)

SpecConc == InitConc /\ [][NextConc]_vars

\* ------------------------------------------------------------------ claims

Live == {e \in Exch : pc[e] # "idle"}

\* the text negotiate() splits for exchange e, None when the value is not text
AcceptText(e) == to_str(AcceptValue(build, req[e].headers))

\* the candidates of exchange e's Accept header, in header order
CandidatesOf(e) == IF AcceptText(e) = None THEN <<>>
                   ELSE Candidates(build, AcceptText(e)[1])

\* the trimmed segments of a header text, none when it is not text
SegmentsOfText(t) == IF t = None THEN <<>>
                     ELSE LET segs == Split(t[1], ",")
                          IN [i \in 1..Len(segs) |-> Trim(segs[i])]

\* the trimmed segments of exchange e's Accept header
SegmentsOf(e) == SegmentsOfText(AcceptText(e))

\* the media-type token of a trimmed segment
TokenOf(seg) == SplitOnce(seg, ";")[1]

\* an Accept header is present and no token of it resolves
Unacceptable(e) == req[e].headers.accept # <<>> /\ CandidatesOf(e) = <<>>

NotAcceptableSent(e) ==
    /\ resp[e] # None
    /\ resp[e][1].status = NOT_ACCEPTABLE
    /\ resp[e][1].body = INVALID_CONTENT_TYPE

\* C1: behind the layer, a request whose Accept header resolves to no candidate
\* never reaches the inner service or the handler, and it ends with the 406
\* response whose body is 'Invalid content type on request'.
C1_UnacceptableNeverInvokes ==
    \A e \in Live :
        (route[e].layered /\ Unacceptable(e)) =>
            /\ invoked[e] = 0
            /\ handled[e] = 0
            /\ inner[e] = None
            /\ pc[e] \in {"start", "done"}
            /\ (pc[e] = "done" => NotAcceptableSent(e))

C1_Witness ==
    \E e \in Live :
        /\ route[e].layered
        /\ Unacceptable(e)
        /\ AcceptText(e) = None
        /\ pc[e] = "done"
        /\ NotAcceptableSent(e)

Higher(q1, q2) == PartialCmp(q1, q2) = Some("Greater")

SameWeight(q1, q2) == PartialCmp(q1, q2) = Some("Equal")

\* the candidates that share their weight with another one while none weighs more
TiedAtTop(cands) ==
    { i \in 1..Len(cands) :
        /\ \E j \in 1..Len(cands) : j # i /\ SameWeight(cands[i].q, cands[j].q)
        /\ \A k \in 1..Len(cands) : ~Higher(cands[k].q, cands[i].q) }

Min(S) == CHOOSE x \in S : \A y \in S : x <= y

\* C2: when two candidates share the highest weight, negotiate() returns the one
\* that comes first in the header.
C2_FirstOfEqualWeightWins ==
    \A e \in Live :
        pc[e] = "parsed" =>
            LET cands == CandidatesOf(e)
                tied  == TiedAtTop(cands)
            IN tied # {} => encoding[e] = Some(cands[Min(tied)].mime)

\* the trimmed segments of a header value whose token resolves
RECURSIVE ResolvedSegments(_, _)
ResolvedSegments(b, segs) ==
    IF segs = <<>> THEN <<>>
    ELSE (IF ParseCandidate(b, Trim(Head(segs))) = None THEN <<>> ELSE <<Trim(Head(segs))>>)
         \o ResolvedSegments(b, Tail(segs))

RECURSIVE Join(_)
Join(segs) == IF segs = <<>> THEN <<>>
              ELSE IF Len(segs) = 1 THEN segs[1]
              ELSE segs[1] \o <<",">> \o Join(Tail(segs))

\* the Accept header of exchange e with the tokens that do not resolve taken out
WithoutUnresolved(e) ==
    [accept       |-> <<Join(ResolvedSegments(build, Split(AcceptText(e)[1], ",")))>>,
     content_type |-> <<>>]

\* C3: negotiate() returns the media type of a resolved candidate that no other
\* resolved candidate outweighs, tokens that do not resolve change nothing, and
\* the result is None exactly when no candidate resolves.
C3_MaximalWeight ==
    \A e \in Live :
        pc[e] = "parsed" =>
            LET cands == CandidatesOf(e)
            IN /\ (encoding[e] = None) <=> (cands = <<>>)
               /\ encoding[e] # None =>
                    \E i \in 1..Len(cands) :
                        /\ cands[i].mime = encoding[e][1]
                        /\ \A k \in 1..Len(cands) : ~Higher(cands[k].q, cands[i].q)
               /\ cands # <<>> => negotiate(build, WithoutUnresolved(e)) = encoding[e]

C3_Witness ==
    \E e \in Live :
        /\ pc[e] = "parsed"
        /\ LET cands == CandidatesOf(e)
           IN /\ Len(SegmentsOf(e)) = 3
              /\ Len(cands) = 2
              /\ Higher(cands[1].q, cands[2].q)
              /\ cands[1].mime # cands[2].mime
              /\ encoding[e] = Some(cands[1].mime)

\* C4: the media type negotiate() selects is one a codec is compiled in for, and
\* a `*/*` token is a candidate for the default media type.
C4_SelectedIsSupported ==
    \A e \in Live :
        pc[e] = "parsed" =>
            LET segs == SegmentsOf(e)
                stars == {i \in 1..Len(segs) : TokenOf(segs[i]) = STAR_STAR}
            IN /\ encoding[e] # None => encoding[e][1] \in Supported(build)
               /\ \A i \in stars :
                      LET c == ParseCandidate(build, segs[i])
                      IN c # None /\ c[1].mime = DEFAULT_CONTENT_TYPE_VALUE(build)
               /\ (segs # <<>> /\ stars = 1..Len(segs))
                      => encoding[e] = Some(DEFAULT_CONTENT_TYPE_VALUE(build))

\* the layer serialized the payload of exchange e's handler response
ReencodedOk(e) ==
    /\ route[e].layered
    /\ pc[e] = "done"
    /\ inner[e] # None
    /\ inner[e][1].extensions.erased # None
    /\ EncodeBody(build, encoding[e][1], inner[e][1].extensions.erased[1]) # None

\* the bytes of v in media type m
EncodingIn(m, v) == IF m = APPLICATION_JSON THEN EncodeJson(v) ELSE EncodeCbor(v)

\* C5: without an Accept header the layer selects the default media type, the
\* one `*/*` at weight 1.0 selects, and a negotiated payload goes out in it.
C5_AbsentAcceptIsDefault ==
    \A e \in Live :
        (route[e].layered /\ req[e].headers.accept = <<>>) =>
            /\ pc[e] # "start" =>
                 /\ encoding[e] = Some(DEFAULT_CONTENT_TYPE_VALUE(build))
                 /\ encoding[e] = negotiate(build, [accept |-> <<STAR_STAR>>, content_type |-> <<>>])
                 /\ encoding[e] = negotiate(build, [accept |-> <<STAR_STAR \o Q(<<"1",".","0">>)>>,
                                                    content_type |-> <<>>])
            /\ ReencodedOk(e) =>
                 /\ HeaderValues(resp[e][1].headers, "content-type")
                        = {DEFAULT_CONTENT_TYPE_VALUE(build)}
                 /\ Some(resp[e][1].body)
                        = EncodingIn(DEFAULT_CONTENT_TYPE_VALUE(build),
                                     inner[e][1].extensions.erased[1])

\* the first q parameter of a segment's parameter tail: Some(its text) or None
RECURSIVE FirstQText(_)
FirstQText(params) ==
    IF params = <<>> THEN None
    ELSE LET v == StripPrefix(Trim(Head(params)), <<"q", "=">>)
         IN IF v # None THEN v ELSE FirstQText(Tail(params))

\* the segment resolves and its q value does not parse as a number
MalformedQ(b, seg) ==
    /\ MimeType(b, TokenOf(seg)) # None
    /\ LET t == FirstQText(Split(SplitOnce(seg, ";")[2], ";"))
       IN t # None /\ ParseF32(t[1]) = None

Positive(q) == Higher(q, F32_ZERO)

\* C6: a resolved candidate whose q value does not parse stays a candidate, at
\* weight 0: negotiation does not fail, it is the one selected when it is the only
\* candidate, and it is not the one selected when another candidate has a weight
\* above 0.
C6_MalformedQIsZero ==
    \A e \in Live :
        pc[e] = "parsed" /\ AcceptText(e) # None =>
            LET segs  == ResolvedSegments(build, Split(AcceptText(e)[1], ","))
                cands == CandidatesOf(e)
            IN /\ Len(segs) = Len(cands)
               /\ \A i \in 1..Len(segs) :
                      MalformedQ(build, segs[i]) =>
                          /\ cands[i] = [mime |-> MimeType(build, TokenOf(segs[i]))[1],
                                         q    |-> F32_ZERO]
                          /\ encoding[e] # None
                          /\ Len(cands) = 1 => encoding[e] = Some(cands[i].mime)
                          /\ (\E k \in 1..Len(cands) : Positive(cands[k].q))
                                 => MaxBy(cands) # i

C6_Witness ==
    \E e \in Live :
        /\ pc[e] = "parsed"
        /\ AcceptText(e) # None
        /\ LET segs == ResolvedSegments(build, Split(AcceptText(e)[1], ","))
               cands == CandidatesOf(e)
           IN /\ Len(segs) = 2
              /\ MalformedQ(build, segs[1])
              /\ Positive(cands[2].q)
              /\ cands[1].mime # cands[2].mime
              /\ encoding[e] = Some(cands[2].mime)

\* C7 as stated: after a successful re-encoding the final status is 200 exactly
\* when the handler's status was the placeholder 415, and any other handler
\* status is kept.
C7_OkIffPlaceholder ==
    \A e \in Live :
        ReencodedOk(e) =>
            /\ (resp[e][1].status = OK) <=> (inner[e][1].status = UNSUPPORTED_MEDIA_TYPE)
            /\ inner[e][1].status # UNSUPPORTED_MEDIA_TYPE
                   => resp[e][1].status = inner[e][1].status

\* C7, amended: after a successful re-encoding the final status is 200 when the
\* handler's status was the placeholder 415, and is the handler's status in every
\* other case (a handler that set 200 itself ends with 200 too).
C7_OnlyPlaceholderReplaced ==
    \A e \in Live :
        ReencodedOk(e) =>
            resp[e][1].status = IF inner[e][1].status = UNSUPPORTED_MEDIA_TYPE
                                THEN OK ELSE inner[e][1].status

C7_Witness ==
    \E e \in Live :
        /\ ReencodedOk(e)
        /\ output[e] = Some([kind |-> "negotiate", status |-> Some(CREATED),
                             value |-> Example(<<"h","i">>), text |-> <<>>])
        /\ resp[e][1].status = CREATED

\* C8: after a successful re-encoding the response's Content-Type is the media
\* type negotiated from the request's Accept header, it has no Content-Length,
\* and its body is the payload's bytes in that media type, not the placeholder
\* text.
C8_ReencodedResponse ==
    \A e \in Live :
        ReencodedOk(e) =>
            LET selected == CandidatesOf(e)[MaxBy(CandidatesOf(e))].mime
                payload  == inner[e][1].extensions.erased[1]
            IN /\ encoding[e] = Some(selected)
               /\ HeaderValues(resp[e][1].headers, "content-type") = {selected}
               /\ HeaderValues(resp[e][1].headers, "content-length") = {}
               /\ Some(resp[e][1].body) = EncodingIn(selected, payload)
               /\ resp[e][1].body # MISCONFIGURED

\* C9: behind the layer, a handler response without an erased payload reaches the
\* caller as it is: same status, headers, extensions and body, nothing serialized.
C9_PassThroughUnchanged ==
    \A e \in Live :
        ( /\ route[e].layered
          /\ pc[e] = "done"
          /\ inner[e] # None
          /\ inner[e][1].extensions.erased = None )
        => (resp[e] = inner[e] /\ encodes[e] = 0)

C9_Witness ==
    \E e \in Live :
        /\ route[e].layered
        /\ pc[e] = "done"
        /\ inner[e] # None
        /\ inner[e][1].extensions.erased = None
        /\ inner[e][1].status = UNSUPPORTED_MEDIA_TYPE
        /\ HeaderValues(inner[e][1].headers, "content-length") # {}
        /\ encoding[e] = Some(APPLICATION_CBOR)
        /\ resp[e] = inner[e]

\* the handler of exchange e returned a bare Negotiate(v)
ReturnedNegotiate(e) ==
    output[e] # None /\ output[e][1].kind = "negotiate" /\ output[e][1].status = None

\* C10: without the layer, a Negotiate(v) the handler returned reaches the caller
\* as 415 with the body 'Misconfigured service layer' and v attached as an
\* extension, and v is never serialized.
C10_UnlayeredIsMisconfigured ==
    \A e \in Live :
        (~route[e].layered /\ ReturnedNegotiate(e)) =>
            /\ encodes[e] = 0
            /\ pc[e] = "done"
            /\ resp[e] # None
            /\ resp[e][1].status = UNSUPPORTED_MEDIA_TYPE
            /\ resp[e][1].body = MISCONFIGURED
            /\ resp[e][1].extensions.erased = Some(output[e][1].value)

C10_Witness ==
    \E e \in Live :
        /\ ~route[e].layered
        /\ ReturnedNegotiate(e)
        /\ output[e][1].value = Example(<<"h","i">>)
        /\ pc[e] = "done"
        /\ resp[e][1].status = UNSUPPORTED_MEDIA_TYPE

\* the extractor of exchange e ran and the inner service resolved
Extracted(e) == route[e].extracts /\ inner[e] # None

\* the request declares a Content-Type that is not a compiled-in media type token
UnsupportedContentType(e) ==
    /\ req[e].headers.content_type # <<>>
    /\ req[e].headers.content_type[1] \notin Supported(build)

\* r is the text response (status, text): its status, its body, nothing attached
IsTextResponse(r, status, text) ==
    /\ r.status = status
    /\ r.body = text
    /\ r.extensions = NoExtensions

\* C11: a request whose Content-Type is not exactly a compiled-in media type token
\* (`*/*`, a token with parameters or a q value, a token of a codec left out of
\* the build) is rejected by the extractor with 406 and the body 'Invalid content
\* type on request'; the body is not read, no codec is called and the handler
\* does not run.
C11_UnsupportedContentTypeRejected ==
    \A e \in Live :
        (route[e].extracts /\ UnsupportedContentType(e)) =>
            /\ bodyReads[e] = 0
            /\ decodes[e] = 0
            /\ handled[e] = 0
            /\ decoded[e] = None
            /\ output[e] = None
            /\ Extracted(e) =>
                 IsTextResponse(inner[e][1], NOT_ACCEPTABLE, INVALID_CONTENT_TYPE)
            /\ (pc[e] = "done" /\ resp[e] # None) =>
                 IsTextResponse(resp[e][1], NOT_ACCEPTABLE, INVALID_CONTENT_TYPE)

C11_Witness ==
    \E e \in Live :
        /\ route[e].extracts
        /\ build.json
        /\ req[e].headers.content_type
             = <<APPLICATION_JSON \o <<";"," ","c","h","a","r","s","e","t","=","u","t","f","-","8">>>>
        /\ req[e].body = EncodeJson(Example(<<"h","i">>))[1]
        /\ req[e].headers.accept = <<>>
        /\ pc[e] = "done"
        /\ resp[e] # None
        /\ IsTextResponse(resp[e][1], NOT_ACCEPTABLE, INVALID_CONTENT_TYPE)

\* C12: a request whose Content-Type is not supported is answered by the
\* extractor with 415 Unsupported Media Type, and the handler does not run.
C12_UnsupportedContentTypeIs415 ==
    \A e \in Live :
        (route[e].extracts /\ UnsupportedContentType(e)) =>
            /\ handled[e] = 0
            /\ Extracted(e) => inner[e][1].status = UNSUPPORTED_MEDIA_TYPE

\* the media type the extractor decodes exchange e's body as, when it is supported
DeclaredType(e) == IF req[e].headers.content_type = <<>>
                   THEN DEFAULT_CONTENT_TYPE_VALUE(build)
                   ELSE req[e].headers.content_type[1]

\* the declared media type has a codec in the build, the body reaches the codec
\* and the codec does not decode it
UndecodableBody(e) ==
    /\ DeclaredType(e) \in Supported(build)
    /\ req[e].failure = None
    /\ IF DeclaredType(e) = APPLICATION_JSON THEN DecodeJson(req[e].body) = None
       ELSE DecodeCbor(req[e].body) = None

\* C13: when the Content-Type is supported, the body is read and its codec fails
\* on it, the extractor answers 400 with the body 'Malformed request body' and
\* nothing else in it, after one read of the body and one decode, and the handler
\* does not run.
C13_MalformedBodyIsBadRequest ==
    \A e \in Live :
        (route[e].extracts /\ UndecodableBody(e)) =>
            /\ handled[e] = 0
            /\ output[e] = None
            /\ decoded[e] = None
            /\ Extracted(e) =>
                 /\ IsTextResponse(inner[e][1], BAD_REQUEST, MALFORMED_BODY)
                 /\ bodyReads[e] = 1
                 /\ decodes[e] = 1
            /\ (pc[e] = "done" /\ resp[e] # None /\ Extracted(e)) =>
                 IsTextResponse(resp[e][1], BAD_REQUEST, MALFORMED_BODY)

C13_Witness ==
    \E e \in Live :
        /\ route[e].extracts
        /\ route[e].layered
        /\ req[e].headers.content_type = <<APPLICATION_JSON>>
        /\ req[e].body = NOT_AN_EXAMPLE
        /\ req[e].failure = None
        /\ pc[e] = "done"
        /\ bodyReads[e] = 1
        /\ decodes[e] = 1
        /\ handled[e] = 0
        /\ resp[e] # None
        /\ IsTextResponse(resp[e][1], BAD_REQUEST, MALFORMED_BODY)

\* the layer found a payload on exchange e's handler response and the codec of
\* the negotiated media type returned an error for it
EncodeFailed(e) ==
    /\ route[e].layered
    /\ pc[e] = "done"
    /\ inner[e] # None
    /\ inner[e][1].extensions.erased # None
    /\ CallsSerialize(build, encoding[e][1])
    /\ EncodingIn(encoding[e][1], inner[e][1].extensions.erased[1]) = None

\* C14: when the payload fails to serialize, the caller receives a response built
\* anew: status 500, the body 'Failed to serialize response' and the headers of a
\* text response, with nothing of the handler's status, headers or extensions and
\* no encoded bytes in it; the payload was serialized once.
C14_EncodeFailureIsFresh500 ==
    \A e \in Live :
        EncodeFailed(e) =>
            /\ resp[e] # None
            /\ IsTextResponse(resp[e][1], INTERNAL_SERVER_ERROR, FAILED_TO_SERIALIZE)
            /\ resp[e][1].headers = {<<"content-type", TEXT_PLAIN_UTF_8>>}
            /\ HeaderValues(resp[e][1].headers, "x-request-id") = {}
            /\ HeaderValues(resp[e][1].headers, "content-length") = {}
            /\ encodes[e] = 1

C14_Witness ==
    \E e \in Live :
        /\ EncodeFailed(e)
        /\ encoding[e] = Some(APPLICATION_JSON)
        /\ inner[e][1].extensions.erased = Some(TupleKeyMap)
        /\ inner[e][1].status = CREATED
        /\ HeaderValues(inner[e][1].headers, "x-request-id") = {REQUEST_ID}
        /\ inner[e][1].extensions.other # None
        /\ resp[e][1].status = INTERNAL_SERVER_ERROR

\* the 406 of a failed negotiation reached exchange e's caller: the layer's, when
\* no Accept candidate resolves, or the extractor's, when the Content-Type is not
\* supported
NegotiationFailed(e) ==
    /\ pc[e] = "done"
    /\ resp[e] # None
    /\ \/ route[e].layered /\ Unacceptable(e)
       \/ route[e].extracts /\ UnsupportedContentType(e)

\* C15 as stated: the negotiation-failure response has status 406, the fixed body
\* and no Content-Type header.
C15_NotAcceptableHasNoContentType ==
    \A e \in Live :
        NegotiationFailed(e) =>
            /\ resp[e][1].status = NOT_ACCEPTABLE
            /\ resp[e][1].body = INVALID_CONTENT_TYPE
            /\ HeaderValues(resp[e][1].headers, "content-type") = {}

\* C15, amended: the negotiation-failure response has status 406, the fixed body
\* and the Content-Type of a text response, `text/plain; charset=utf-8`.
C15_NotAcceptableIsTextPlain ==
    \A e \in Live :
        NegotiationFailed(e) =>
            /\ resp[e][1].status = NOT_ACCEPTABLE
            /\ resp[e][1].body = INVALID_CONTENT_TYPE
            /\ HeaderValues(resp[e][1].headers, "content-type") = {TEXT_PLAIN_UTF_8}

C15_Witness ==
    \E e \in Live :
        /\ NegotiationFailed(e)
        /\ route[e].layered
        /\ ~Unacceptable(e)
        /\ req[e].headers.content_type = <<TEXT_PLAIN>>
        /\ resp[e][1].status = NOT_ACCEPTABLE
        /\ HeaderValues(resp[e][1].headers, "content-type") = {TEXT_PLAIN_UTF_8}

\* the codec of the default media type applied to a body
DecodeDefault(b, body) ==
    IF DEFAULT_CONTENT_TYPE_VALUE(b) = APPLICATION_JSON THEN DecodeJson(body)
    ELSE DecodeCbor(body)

\* C16: a request without a Content-Type header, whose body is read, is decoded
\* by the codec of the default media type, the media type an absent Accept header selects, exactly as
\* if it declared that media type, and the handler runs with the decoded value.
C16_AbsentContentTypeIsDefault ==
    \A e \in Live :
        (Extracted(e) /\ req[e].headers.content_type = <<>> /\ req[e].failure = None) =>
            /\ bodyReads[e] = 1
            /\ decodes[e] = 1
            /\ decoded[e] = DecodeDefault(build, req[e].body)
            /\ negotiate(build, [accept |-> <<>>, content_type |-> <<>>])
                   = Some(DEFAULT_CONTENT_TYPE_VALUE(build))
            /\ from_request(build, req[e])
                   = from_request(build, Request(req[e].headers.accept,
                                                 <<DEFAULT_CONTENT_TYPE_VALUE(build)>>,
                                                 req[e].body))
            /\ decoded[e] # None => (handled[e] = 1 /\ output[e] # None)

\* C17: after a successful re-encoding the payload was serialized once and the
\* response handed on no longer carries it, so that an outer NegotiateService
\* finds nothing to serialize.
C17_PayloadDiscardedAfterReencoding ==
    \A e \in Live :
        ReencodedOk(e) =>
            /\ encodes[e] = 1
            /\ resp[e][1].extensions.erased = None

\* the phase of exchange e in the terms of the spec's state machine;
\* FormatSelected is passed inside call(), between negotiate() and self.0.call(),
\* and the extractor awaiting the body is part of the inner service running
Phase(e) ==
    CASE pc[e] = "start"    -> "AwaitingNegotiation"
      [] pc[e] = "running"  -> "HandlerRunning"
      [] pc[e] = "reading"  -> "HandlerRunning"
      [] pc[e] = "returned" -> IF inner[e][1].extensions.erased = None
                               THEN "PassThrough" ELSE "Reencoding"
      [] pc[e] = "failed"   -> "PassThrough"
      [] pc[e] = "done"     -> "Terminal"
      [] OTHER              -> "Idle"

PhaseTransitions ==
    { <<"AwaitingNegotiation", "HandlerRunning">>,
      <<"AwaitingNegotiation", "Terminal">>,
      <<"HandlerRunning", "PassThrough">>,
      <<"HandlerRunning", "Reencoding">>,
      <<"PassThrough", "Terminal">>,
      <<"Reencoding", "Terminal">> }

\* what a step may do to exchange e
PhaseStep(e) ==
    /\ Phase(e)' # Phase(e) => <<Phase(e), Phase(e)'>> \in PhaseTransitions
    /\ (Phase(e) = "AwaitingNegotiation" /\ Phase(e)' = "HandlerRunning") =>
          /\ encoding'[e] # None
          /\ invoked'[e] = 1
          /\ handled'[e] = 0
    /\ (Phase(e) = "AwaitingNegotiation" /\ Phase(e)' = "Terminal") =>
          /\ encoding'[e] = None
          /\ invoked'[e] = 0
          /\ resp'[e] # None
          /\ resp'[e][1].status = NOT_ACCEPTABLE
    /\ Phase(e) # "AwaitingNegotiation" => encoding'[e] = encoding[e]
    /\ invoked'[e] # invoked[e] => Phase(e) = "AwaitingNegotiation"
    /\ handled'[e] # handled[e] => (Phase(e) = "HandlerRunning" /\ handled'[e] = 1)
    /\ inner'[e] # inner[e] => Phase(e) = "HandlerRunning"
    /\ encodes'[e] # encodes[e] => (Phase(e) = "Reencoding" /\ encodes'[e] = 1)
    /\ (Phase(e) \in {"PassThrough", "Reencoding"} /\ Phase(e)' = "Terminal" /\ inner[e] # None)
          => resp'[e] # None
    /\ resp'[e] # resp[e] =>
          /\ Phase(e) \in {"AwaitingNegotiation", "PassThrough", "Reencoding"}
          /\ Phase(e)' = "Terminal"
    /\ Phase(e) = "Terminal" =>
          /\ Phase(e)' = "Terminal"
          /\ resp'[e] = resp[e]
          /\ encoding'[e] = encoding[e]

\* C18: an exchange behind the layer moves only AwaitingNegotiation ->
\* HandlerRunning -> PassThrough or Reencoding -> Terminal, or AwaitingNegotiation
\* -> Terminal with the 406: the format is selected once, in the step that calls
\* the inner service and before the handler runs; the handler runs at most once;
\* the layer looks at the response only after the inner service resolved; and a
\* terminal exchange keeps its one outcome.
C18_ExchangePhases ==
    [][\A e \in Exch : route[e].layered => PhaseStep(e)]_vars

C18_Witness ==
    \E e \in Live :
        /\ route[e].layered
        /\ Phase(e) = "Terminal"
        /\ encoding[e] # None
        /\ invoked[e] = 1
        /\ handled[e] = 1
        /\ encodes[e] = 1
        /\ resp[e] # None
        /\ resp[e][1].status = OK

\* q lies in [0.0, 1.0]
InUnitInterval(q) ==
    /\ PartialCmp(F32_ZERO, q) \in {Some("Less"), Some("Equal")}
    /\ PartialCmp(q, F32_ONE) \in {Some("Less"), Some("Equal")}

\* C19: every candidate negotiate() builds from an Accept header has a weight in
\* [0.0, 1.0], whatever the q parameter says.
C19_WeightsInUnitInterval ==
    \A e \in Live :
        pc[e] = "parsed" =>
            LET cands == CandidatesOf(e)
            IN \A i \in 1..Len(cands) : InUnitInterval(cands[i].q)

\* all that exchange e owns
Local(e) == <<pc[e], encoding[e], output[e], inner[e], resp[e], invoked[e], handled[e],
              decoded[e], bodyReads[e], decodes[e], encodes[e]>>

\* what exchange e's caller receives, from e's request and e's inner result alone
OwnOutcome(e) ==
    LET accept == negotiate(build, req[e].headers)
    IN IF accept = None THEN Some(TextResponse(NOT_ACCEPTABLE, INVALID_CONTENT_TYPE))
       ELSE IF inner[e] = None THEN None
       ELSE Some(PostHandlerResponse(build, accept[1], inner[e][1]))

\* the format and the results of every exchange are those of its own request
OwnResults ==
    \A e \in Live :
        /\ encoding[e] = IF pc[e] = "start" THEN None ELSE negotiate(build, req[e].headers)
        /\ pc[e] = "done" => resp[e] = OwnOutcome(e)
        /\ (route[e].extracts /\ inner[e] # None) => decoded[e] = from_request(build, req[e]).value
        /\ (inner[e] # None /\ output[e] # None) =>
              \E setLen \in BOOLEAN, extra \in BOOLEAN :
                  inner[e][1] = Decorate(IntoResponse(output[e][1]), setLen, extra)

\* a step is the step of one exchange: it writes that exchange's state only, and
\* never the build, the routes or the requests
OwnSteps ==
    /\ Cardinality({e \in Exch : Local(e)' # Local(e)}) <= 1
    /\ UNCHANGED <<build, req, route>>

\* C20: with two exchanges in flight through clones of one NegotiateService, in
\* any interleaving, the media type selected for an exchange and the response it
\* ends with are those its own request and its own handler result give, and no
\* step of one exchange writes what the other owns; the build's media types are
\* the only thing both read.
C20_ExchangesIndependent == []OwnResults /\ [][OwnSteps]_vars

C20_Witness ==
    /\ pc[1] = "returned"
    /\ pc[2] = "returned"
    /\ encoding[1] = Some(APPLICATION_JSON)
    /\ encoding[2] = Some(APPLICATION_CBOR)
    /\ inner[1][1].extensions.erased = Some(Example(<<"h","i">>))
    /\ inner[2][1].extensions.erased = Some(TupleKeyMap)

\* the headers other than Content-Type and Content-Length
OtherHeaders(headers) == {h \in headers : h[1] \notin {"content-type", "content-length"}}

\* C21: a successful re-encoding changes the status (only 415, to 200), the
\* Content-Type, the Content-Length and the body, and nothing else: every other
\* header and every extension of the handler's response is on the final response
\* as the handler left it.
C21_ReencodingKeepsTheRest ==
    \A e \in Live :
        ReencodedOk(e) =>
            /\ OtherHeaders(resp[e][1].headers) = OtherHeaders(inner[e][1].headers)
            /\ resp[e][1].extensions = inner[e][1].extensions
            /\ inner[e][1].status # UNSUPPORTED_MEDIA_TYPE
                   => resp[e][1].status = inner[e][1].status

C21_Witness ==
    \E e \in Live :
        /\ ReencodedOk(e)
        /\ inner[e][1].status = CREATED
        /\ HeaderValues(inner[e][1].headers, "x-request-id") = {REQUEST_ID}
        /\ HeaderValues(inner[e][1].headers, "content-length") # {}
        /\ inner[e][1].extensions.other = Some("trace")
        /\ HeaderValues(resp[e][1].headers, "x-request-id") = {REQUEST_ID}
        /\ resp[e][1].extensions.other = Some("trace")
        /\ resp[e][1].body # inner[e][1].body

====
